---- MODULE Spec2Model ----
(***************************************************************************)
(* State-machine model of the gasless EIP-3009 relayer canister            *)
(* (src/canisters/relayer/src/lib.rs).                                     *)
(*                                                                         *)
(* One atomic step of the model is one message execution of the canister:  *)
(* the code that runs between two suspension points (`.await` of an        *)
(* inter-canister call).  An update call that awaits is therefore modelled *)
(* by its entry action plus one action per continuation.                   *)
(*                                                                         *)
(* Representation conventions:                                             *)
(*   Option<T>      None = << >>,  Some(x) = << x >>                       *)
(*   String         a sequence of string fragments whose concatenation is  *)
(*                  the text; hex strings are sequences of characters      *)
(*   Vec<u8>        request fields: a record [tag, len] (content name and  *)
(*                  byte length); decoded RPC data: a sequence of 0..255   *)
(*   candid::Nat    token amounts: three limbs <<hi, mid, lo>> of base     *)
(*                  10^9 (value = hi*10^18 + mid*10^9 + lo); wei amounts,  *)
(*                  gas and chain ids: integers                            *)
(***************************************************************************)
EXTENDS Integers, Sequences, FiniteSets, TLC

VARIABLES
    admins,          \* RelayerState.admins
    config,          \* RelayerState.config
    assets,          \* RelayerState.assets
    rate_limit,      \* RelayerState.rate_limit
    rate_state,      \* RelayerState.rate_state
    logs,            \* RelayerState.logs
    next_log_id,     \* RelayerState.next_log_id
    last_known_gas,  \* RelayerState.last_known_gas
    JSON_RPC_ID,     \* static JSON_RPC_ID
    now,             \* ic_cdk::api::time() / 1_000_000_000
    runs,            \* the submit_authorization calls in flight
    refresh,         \* the refresh_gas_balance call in flight
    derive,          \* the derive_relayer_address call in flight
    reply            \* the reply (or trap) produced by the last step, if any

vars == <<admins, config, assets, rate_limit, rate_state, logs, next_log_id,
          last_known_gas, JSON_RPC_ID, now, runs, refresh, derive, reply>>

relayer_state == <<admins, config, assets, rate_limit, rate_state, logs,
                   next_log_id, last_known_gas>>

(***************************************************************************)
(* Bounds of the model.                                                    *)
(***************************************************************************)
\* submit_authorization calls in flight at once
MaxRuns == 2
\* log entries reserved in Spec and FairSpec
MaxLogs == 2
\* refresh_gas_balance is entered while JSON_RPC_ID is below this
MaxRefreshId == 3
\* log entries reserved in AdmissionSpec
MaxAdmitted == 1
\* rate_limit.per_addr_per_min in RateSpec
PerAddrPerMin == 2
\* rate_limit.daily_cap_token in RateSpec
DailyCapToken == 2
\* log entries reserved in RateSpec
MaxRateLogs == 4
\* submissions counted by one daily counter in RateSpec
MaxDailyHits == 4
\* the time of the canister in AdmissionSpec, in seconds
AdmissionNow == 1000
\* log entries reserved in CapSpec
MaxCapLogs == 3
\* submissions counted by one daily counter in CapSpec
MaxCapHits == 4

(***************************************************************************)
(* Option and Result.                                                      *)
(***************************************************************************)
None == << >>
Some(x) == << x >>
IsSome(o) == Len(o) = 1
IsNone(o) == Len(o) = 0
Unwrap(o) == o[1]

(***************************************************************************)
(* candid::Nat arithmetic on token amounts (three limbs of base 10^9).     *)
(***************************************************************************)
LimbBase == 1000 * 1000 * 1000

NatZero == <<0, 0, 0>>

NatAdd(x, y) ==
    LET lo  == x[3] + y[3]
        mid == x[2] + y[2] + (lo \div LimbBase)
    IN  << x[1] + y[1] + (mid \div LimbBase), mid % LimbBase, lo % LimbBase >>

NatGT(x, y) ==
    \/ x[1] > y[1]
    \/ x[1] = y[1] /\ x[2] > y[2]
    \/ x[1] = y[1] /\ x[2] = y[2] /\ x[3] > y[3]

\* k * x for a small machine integer k
NatScale(k, x) ==
    LET lo  == k * x[3]
        mid == k * x[2] + (lo \div LimbBase)
    IN  << k * x[1] + (mid \div LimbBase), mid % LimbBase, lo % LimbBase >>

JPYC_UNIT_MULTIPLIER == <<1, 0, 0>>

(***************************************************************************)
(* RelayError and its Display form.                                        *)
(***************************************************************************)
Err(kind, field, n1, n2, message) ==
    [kind |-> kind, field |-> field, n1 |-> n1, n2 |-> n2, message |-> message]

NoError == Err("none", "", 0, 0, << >>)
ErrPaused == Err("Paused", "", 0, 0, << >>)
ErrNotAuthorized == Err("NotAuthorized", "", 0, 0, << >>)
ErrConfigurationMissing(field) == Err("ConfigurationMissing", field, 0, 0, << >>)
ErrRelayerAddressMissing == Err("RelayerAddressMissing", "", 0, 0, << >>)
ErrAssetNotRegistered == Err("AssetNotRegistered", "", 0, 0, << >>)
ErrAssetNotActive == Err("AssetNotActive", "", 0, 0, << >>)
ErrAuthorizationExpired == Err("AuthorizationExpired", "", 0, 0, << >>)
ErrAuthorizationAlreadyUsed == Err("AuthorizationAlreadyUsed", "", 0, 0, << >>)
ErrInvalidAddressLength(field, expected, actual) ==
    Err("InvalidAddressLength", field, expected, actual, << >>)
ErrInvalidNonceLength(expected, actual) ==
    Err("InvalidNonceLength", "", expected, actual, << >>)
ErrInvalidSignatureLength(field, expected, actual) ==
    Err("InvalidSignatureLength", field, expected, actual, << >>)
ErrSignatureRecoveryFailed(message) ==
    Err("SignatureRecoveryFailed", "", 0, 0, message)
ErrRpcError(code, message) == Err("RpcError", "", code, 0, message)
ErrRpcTransportError(code, message) == Err("RpcTransportError", code, 0, 0, message)
ErrRpcResultTypeMismatch(expected) == Err("RpcResultTypeMismatch", expected, 0, 0, << >>)
ErrHexDecodeFailed(value) == Err("HexDecodeFailed", "", 0, 0, value)
ErrNumberOutOfRange(field) == Err("NumberOutOfRange", field, 0, 0, << >>)
ErrSimulationFailed(message) == Err("SimulationFailed", "", 0, 0, message)
ErrGasEstimateFailed(message) == Err("GasEstimateFailed", "", 0, 0, message)
ErrGasBalanceLow(required, actual) == Err("GasBalanceLow", "", required, actual, << >>)
ErrRateLimited == Err("RateLimited", "", 0, 0, << >>)
ErrJsonError(message) == Err("JsonError", "", 0, 0, message)

\* impl Display for RelayError
Display(e) ==
    CASE e.kind = "NotAuthorized" -> <<"not authorized">>
      [] e.kind = "NotInitialized" -> <<"state not initialized">>
      [] e.kind = "Paused" -> <<"service paused">>
      [] e.kind = "ConfigurationMissing" -> <<"configuration missing: ", e.field>>
      [] e.kind = "RelayerAddressMissing" -> <<"relayer address not configured">>
      [] e.kind = "AssetNotRegistered" -> <<"asset not registered">>
      [] e.kind = "AssetNotActive" -> <<"asset not active">>
      [] e.kind = "AuthorizationExpired" -> <<"authorization expired">>
      [] e.kind = "AuthorizationAlreadyUsed" -> <<"authorization already used">>
      [] e.kind = "InvalidAddressLength" ->
            <<"invalid ", e.field, " length: expected ", ToString(e.n1),
              ", got ", ToString(e.n2)>>
      [] e.kind = "InvalidNonceLength" ->
            <<"invalid nonce length: expected ", ToString(e.n1),
              ", got ", ToString(e.n2)>>
      [] e.kind = "InvalidSignatureLength" ->
            <<"invalid ", e.field, " length: expected ", ToString(e.n1),
              ", got ", ToString(e.n2)>>
      [] e.kind = "SignatureRecoveryFailed" ->
            <<"signature recovery failed: ">> \o e.message
      [] e.kind = "RpcError" ->
            <<"rpc error ", ToString(e.n1), ": ">> \o e.message
      [] e.kind = "RpcTransportError" ->
            <<"rpc transport error ", e.field, ": ">> \o e.message
      [] e.kind = "RpcResultTypeMismatch" ->
            <<"unexpected rpc result type, expected ", e.field>>
      [] e.kind = "HexDecodeFailed" -> <<"failed to decode hex: ">> \o e.message
      [] e.kind = "NumberOutOfRange" -> <<"number out of range: ", e.field>>
      [] e.kind = "SimulationFailed" -> <<"simulation failed: ">> \o e.message
      [] e.kind = "GasEstimateFailed" -> <<"gas estimation failed: ">> \o e.message
      [] e.kind = "GasBalanceLow" ->
            <<"gas balance low: required ", ToString(e.n1),
              ", actual ", ToString(e.n2)>>
      [] e.kind = "RateLimited" -> <<"rate limit exceeded">>
      [] e.kind = "JsonError" -> <<"json error: ">> \o e.message
      [] OTHER -> <<"feature not implemented: ", e.field>>

Ok(v) == [ok |-> TRUE, val |-> v, err |-> NoError]
Fail(e) == [ok |-> FALSE, val |-> << >>, err |-> e]

(***************************************************************************)
(* Integer conversions.  A Nat received from a caller is a record          *)
(* [fits_u64, val]: whether it is below 2^64 and, when it is, its value.   *)
(***************************************************************************)
NatIn(v) == [fits_u64 |-> TRUE, fits_u256 |-> TRUE, val |-> v]
NatHuge == [fits_u64 |-> FALSE, fits_u256 |-> TRUE, val |-> 0]
NatEnormous == [fits_u64 |-> FALSE, fits_u256 |-> FALSE, val |-> 0]

nat_to_u64(n) == IF n.fits_u64 THEN Ok(n.val) ELSE Fail(ErrNumberOutOfRange("u64"))

(***************************************************************************)
(* Hex strings (sequences of characters) and byte strings.                 *)
(***************************************************************************)
HexChars == <<"0", "1", "2", "3", "4", "5", "6", "7", "8", "9",
              "a", "b", "c", "d", "e", "f">>
HexCharsUpper == <<"0", "1", "2", "3", "4", "5", "6", "7", "8", "9",
                   "A", "B", "C", "D", "E", "F">>

HexDigits == {HexChars[i] : i \in 1..16} \cup {HexCharsUpper[i] : i \in 1..16}
HexDigitValues ==
    [c \in HexDigits |->
        (CHOOSE i \in 1..16 : HexChars[i] = c \/ HexCharsUpper[i] = c) - 1]

IsHexDigit(c) == c \in HexDigits
HexDigitValue(c) == HexDigitValues[c]

StartsWith0x(s) == Len(s) >= 2 /\ s[1] = "0" /\ s[2] = "x"

parse_hex_bytes(value) ==
    IF ~StartsWith0x(value) THEN Fail(ErrHexDecodeFailed(value))
    ELSE LET body0 == SubSeq(value, 3, Len(value))
             body  == IF Len(body0) % 2 # 0 THEN <<"0">> \o body0 ELSE body0
         IN  IF body0 = << >> THEN Ok(<< >>)
             ELSE IF \E i \in 1..Len(body) : ~IsHexDigit(body[i])
                  THEN Fail(ErrHexDecodeFailed(value))
                  ELSE Ok([i \in 1..(Len(body) \div 2) |->
                            16 * HexDigitValue(body[2 * i - 1])
                               + HexDigitValue(body[2 * i])])

\* a decoding that reads the whole word instead of its last byte
decode_bool_abi_WholeWord(bytes) ==
    Ok(\E i \in 1..Len(bytes) : bytes[i] # 0)

decode_bool_abi(bytes) ==
    IF bytes = << >> THEN Ok(FALSE) ELSE Ok(bytes[Len(bytes)] # 0)

RECURSIVE BytesToNat(_)
\* BigUint::from_bytes_be
BytesToNat(bytes) ==
    IF bytes = << >> THEN 0
    ELSE 256 * BytesToNat(SubSeq(bytes, 1, Len(bytes) - 1)) + bytes[Len(bytes)]

nat_from_hex(value) ==
    LET bytes == parse_hex_bytes(value)
    IN  IF bytes.ok THEN Ok(BytesToNat(bytes.val)) ELSE bytes

nat_from_hex_with_zero_default(value) ==
    IF value = <<"0", "x">> THEN Ok(0) ELSE nat_from_hex(value)

\* a request byte string of 20 bytes, as "0x" + hex::encode
to_hex_address(bytes) ==
    IF bytes.len # 20
    THEN Fail(ErrInvalidAddressLength("address", 20, bytes.len))
    ELSE Ok(<<"0x", bytes.tag>>)

\* an EVM address kept in the configuration: "0x" followed by 40 hex digits
\* (normalize_evm_address is the only way one is stored)
evm_address_bytes(address) ==
    IF Len(address) = 2 /\ address[1] = "0x"
    THEN Ok([tag |-> address[2], len |-> 20])
    ELSE Fail(ErrHexDecodeFailed(address))

\* an address typed by an admin: [prefixed, chars, hex, tag]
normalize_evm_address(address) ==
    IF address.chars # 42 \/ ~address.prefixed
    THEN Fail(ErrInvalidAddressLength("evm_address", 42, address.chars))
    ELSE IF ~address.hex THEN Fail(ErrHexDecodeFailed(<<address.tag>>))
    ELSE Ok(<<"0x", address.tag>>)

(***************************************************************************)
(* Replies.  Every step records what it returned to its caller (None when  *)
(* the step returns nothing: a suspension, a tick of the clock).           *)
(***************************************************************************)
Reply(op, run, result) ==
    Some([op |-> op, run |-> run, req |-> None, ok |-> result.ok,
          err |-> result.err, trap |-> FALSE,
          val |-> IF result.ok THEN result.val ELSE Display(result.err)])

\* the reply of submit_authorization: Result<String, String>, with the
\* request it answers
SubmitReply(run, req, result) ==
    Some([op |-> "submit_authorization", run |-> run, req |-> Some(req),
          ok |-> result.ok, err |-> result.err, trap |-> FALSE,
          val |-> IF result.ok THEN result.val ELSE Display(result.err)])

Trap(op, e) ==
    Some([op |-> op, run |-> 0, req |-> None, ok |-> FALSE, err |-> e,
          trap |-> TRUE, val |-> Display(e)])

\* ic_cdk::trap with a literal message
TrapMessage(op, message) ==
    Some([op |-> op, run |-> 0, req |-> None, ok |-> FALSE, err |-> NoError,
          trap |-> TRUE, val |-> message])

Done(op) == Reply(op, 0, Ok(<< >>))

(***************************************************************************)
(* The state after construction.                                           *)
(***************************************************************************)
\* an f64 multiplier: a finite ratio num/den (den > 0), or NaN, or an infinity
Rational(n, d) == [kind |-> "finite", num |-> n, den |-> d]

\* impl Default for InitArgs, with the rate limits of the model
DefaultInitArgs ==
    [admins |-> {}, ecdsa_key_name |-> "test_key_1", chain_id |-> None,
     ecdsa_derivation_path |-> None, threshold_wei |-> Some(0),
     max_fee_multiplier |-> Some(Rational(2, 1)),
     priority_multiplier |-> Some(Rational(6, 5)),
     rate_limit_per_min |-> Some(10), daily_cap_token |-> Some(10000)]

IdleRun == [pc |-> "idle"]
IdleRefresh == [pc |-> "idle"]
IdleDerive == [pc |-> "idle"]

\* a configuration that starts in service
InitConfig_Unpaused(args) ==
    [evm_addr |-> None,
     ecdsa_key_name |-> args.ecdsa_key_name,
     ecdsa_derivation_path |->
        IF IsSome(args.ecdsa_derivation_path)
        THEN Unwrap(args.ecdsa_derivation_path) ELSE << >>,
     chain_id |-> args.chain_id,
     threshold_wei |->
        IF IsSome(args.threshold_wei) THEN Unwrap(args.threshold_wei) ELSE 0,
     rpc_target |-> None,
     max_fee_multiplier |->
        IF IsSome(args.max_fee_multiplier)
        THEN Unwrap(args.max_fee_multiplier) ELSE Rational(2, 1),
     priority_multiplier |->
        IF IsSome(args.priority_multiplier)
        THEN Unwrap(args.priority_multiplier) ELSE Rational(6, 5),
     paused |-> FALSE]

InitConfig(args) ==
    [evm_addr |-> None,
     ecdsa_key_name |-> args.ecdsa_key_name,
     ecdsa_derivation_path |->
        IF IsSome(args.ecdsa_derivation_path)
        THEN Unwrap(args.ecdsa_derivation_path) ELSE << >>,
     chain_id |-> args.chain_id,
     threshold_wei |->
        IF IsSome(args.threshold_wei) THEN Unwrap(args.threshold_wei) ELSE 0,
     rpc_target |-> None,
     max_fee_multiplier |->
        IF IsSome(args.max_fee_multiplier)
        THEN Unwrap(args.max_fee_multiplier) ELSE Rational(2, 1),
     priority_multiplier |->
        IF IsSome(args.priority_multiplier)
        THEN Unwrap(args.priority_multiplier) ELSE Rational(6, 5),
     paused |-> TRUE]

InitRateLimit(args) ==
    [per_addr_per_min |->
        IF IsSome(args.rate_limit_per_min) THEN Unwrap(args.rate_limit_per_min) ELSE 10,
     daily_cap_token |->
        IF IsSome(args.daily_cap_token) THEN Unwrap(args.daily_cap_token) ELSE 10000]

EmptyRateState == [per_min_counter |-> << >>, daily_counter |-> << >>]

\* #[init] fn init, called by `caller` at time t
init(args, caller, t) ==
    /\ admins = args.admins \cup {caller}
    /\ config = InitConfig(args)
    /\ assets = << >>
    /\ rate_limit = InitRateLimit(args)
    /\ rate_state = EmptyRateState
    /\ logs = << >>
    /\ next_log_id = 1
    /\ last_known_gas = 0
    /\ JSON_RPC_ID = 1
    /\ now = t
    /\ runs = [r \in 1..MaxRuns |-> IdleRun]
    /\ refresh = IdleRefresh
    /\ derive = IdleDerive
    /\ reply = None

(***************************************************************************)
(* Upgrade: pre_upgrade (lines 519-535) and post_upgrade (537-559).        *)
(* Stable memory holds the Candid encoding of one Option<RelayerState>:    *)
(* the fields in declaration order, sets and maps as vectors.              *)
(***************************************************************************)
RECURSIVE SetToVec(_)
SetToVec(S) ==
    IF S = {} THEN << >>
    ELSE LET x == CHOOSE y \in S : TRUE IN <<x>> \o SetToVec(S \ {x})

VecToSet(v) == {v[i] : i \in 1..Len(v)}

MapToVec(m) == LET keys == SetToVec(DOMAIN m)
               IN  [i \in 1..Len(keys) |-> <<keys[i], m[keys[i]]>>]

VecToMap(v) ==
    [k \in {v[i][1] : i \in 1..Len(v)} |->
        (CHOOSE p \in VecToSet(v) : p[1] = k)[2]]

\* impl Default for RelayerState and the structs in it (derived)
DefaultRelayerState ==
    [admins |-> {},
     config |-> [evm_addr |-> None, ecdsa_key_name |-> "",
                 ecdsa_derivation_path |-> << >>, chain_id |-> None,
                 threshold_wei |-> 0, rpc_target |-> None,
                 max_fee_multiplier |-> Rational(0, 1),
                 priority_multiplier |-> Rational(0, 1), paused |-> FALSE],
     assets |-> << >>,
     rate_limit |-> [per_addr_per_min |-> 0, daily_cap_token |-> 0],
     rate_state |-> [per_min_counter |-> << >>, daily_counter |-> << >>],
     logs |-> << >>,
     next_log_id |-> 0,
     last_known_gas |-> 0]

\* the value of STATE
StateSnapshot ==
    Some([admins |-> admins, config |-> config, assets |-> assets,
          rate_limit |-> rate_limit, rate_state |-> rate_state, logs |-> logs,
          next_log_id |-> next_log_id, last_known_gas |-> last_known_gas])

\* stable_save((snapshot,))
stable_save(snapshot) ==
    [decodable |-> TRUE,
     opt |-> IF IsNone(snapshot) THEN << >>
             ELSE LET st == Unwrap(snapshot)
                  IN  <<<<SetToVec(st.admins), st.config, MapToVec(st.assets),
                          st.rate_limit,
                          <<MapToVec(st.rate_state.per_min_counter),
                            MapToVec(st.rate_state.daily_counter)>>,
                          st.logs, st.next_log_id, st.last_known_gas>>>>]

\* stable_restore::<(Option<RelayerState>,)>()
stable_restore(memory) ==
    IF ~memory.decodable THEN Fail(ErrJsonError(<<"failed to restore state">>))
    ELSE IF memory.opt = << >> THEN Ok(None)
    ELSE LET f == memory.opt[1]
         IN  Ok(Some([admins |-> VecToSet(f[1]), config |-> f[2],
                      assets |-> VecToMap(f[3]), rate_limit |-> f[4],
                      rate_state |-> [per_min_counter |-> VecToMap(f[5][1]),
                                      daily_counter |-> VecToMap(f[5][2])],
                      logs |-> f[6], next_log_id |-> f[7],
                      last_known_gas |-> f[8]]))

\* #[pre_upgrade]: what the old instance leaves in stable memory
pre_upgrade == stable_save(StateSnapshot)

\* #[post_upgrade] of a fresh instance over stable memory `memory`: the
\* statics start from their initialisers (JSON_RPC_ID = 1), no call is in
\* flight; a trap cancels the upgrade and the old instance stays
post_upgrade(memory) ==
    /\ \A r \in 1..MaxRuns : runs[r].pc = "idle"
    /\ refresh.pc = "idle"
    /\ derive.pc = "idle"
    /\ LET restored == stable_restore(memory)
       IN  IF ~restored.ok
           THEN /\ reply' = TrapMessage("post_upgrade", restored.err.message)
                /\ UNCHANGED <<relayer_state, JSON_RPC_ID, now, runs, refresh, derive>>
           ELSE LET st == IF IsSome(restored.val) THEN Unwrap(restored.val)
                          ELSE DefaultRelayerState
                IN  /\ admins' = st.admins
                    /\ config' = st.config
                    /\ assets' = st.assets
                    /\ rate_limit' = st.rate_limit
                    /\ rate_state' = st.rate_state
                    /\ logs' = st.logs
                    /\ next_log_id' = st.next_log_id
                    /\ last_known_gas' = st.last_known_gas
                    /\ JSON_RPC_ID' = 1
                    /\ reply' = Done("post_upgrade")
                    /\ UNCHANGED <<now, runs, refresh, derive>>

(***************************************************************************)
(* Admin surface.                                                          *)
(***************************************************************************)
\* ensure_admin letting every caller through
ensure_admin_Anyone(caller) == Ok(<< >>)

ensure_admin(caller) ==
    IF caller \in admins THEN Ok(<< >>) ELSE Fail(ErrNotAuthorized)

\* what a trapping update call leaves behind: nothing but the trap
Trapped(op, e) ==
    /\ reply' = Trap(op, e)
    /\ UNCHANGED <<relayer_state, JSON_RPC_ID, now, runs, refresh, derive>>

set_rpc_target(caller, canister, network) ==
    IF ~ensure_admin(caller).ok THEN Trapped("set_rpc_target", ErrNotAuthorized)
    ELSE /\ config' = [config EXCEPT
                         !.rpc_target = Some([canister |-> canister, network |-> network])]
         /\ reply' = Done("set_rpc_target")
         /\ UNCHANGED <<admins, assets, rate_limit, rate_state, logs, next_log_id,
                        last_known_gas, JSON_RPC_ID, now, runs, refresh, derive>>

set_threshold(caller, value) ==
    IF ~ensure_admin(caller).ok THEN Trapped("set_threshold", ErrNotAuthorized)
    ELSE /\ config' = [config EXCEPT !.threshold_wei = value]
         /\ reply' = Done("set_threshold")
         /\ UNCHANGED <<admins, assets, rate_limit, rate_state, logs, next_log_id,
                        last_known_gas, JSON_RPC_ID, now, runs, refresh, derive>>

set_chain_id(caller, chain_id) ==
    IF ~ensure_admin(caller).ok THEN Trapped("set_chain_id", ErrNotAuthorized)
    ELSE /\ config' = [config EXCEPT !.chain_id = Some(chain_id)]
         /\ reply' = Done("set_chain_id")
         /\ UNCHANGED <<admins, assets, rate_limit, rate_state, logs, next_log_id,
                        last_known_gas, JSON_RPC_ID, now, runs, refresh, derive>>

set_ecdsa_derivation_path(caller, path) ==
    IF ~ensure_admin(caller).ok
    THEN Trapped("set_ecdsa_derivation_path", ErrNotAuthorized)
    ELSE /\ config' = [config EXCEPT !.ecdsa_derivation_path = path]
         /\ reply' = Done("set_ecdsa_derivation_path")
         /\ UNCHANGED <<admins, assets, rate_limit, rate_state, logs, next_log_id,
                        last_known_gas, JSON_RPC_ID, now, runs, refresh, derive>>

set_relayer_address(caller, address) ==
    IF ~ensure_admin(caller).ok THEN Trapped("set_relayer_address", ErrNotAuthorized)
    ELSE LET normalized == normalize_evm_address(address)
         IN  IF ~normalized.ok THEN Trapped("set_relayer_address", normalized.err)
             ELSE /\ config' = [config EXCEPT !.evm_addr = Some(normalized.val)]
                  /\ reply' = Done("set_relayer_address")
                  /\ UNCHANGED <<admins, assets, rate_limit, rate_state, logs,
                                 next_log_id, last_known_gas, JSON_RPC_ID, now, runs,
                                 refresh, derive>>

\* the reply of derive_relayer_address: Result<String, String>
DeriveReply(ok, val) ==
    Some([op |-> "derive_relayer_address", run |-> 0, req |-> None, ok |-> ok,
          err |-> NoError, trap |-> FALSE, val |-> val])

\* #[update] derive_relayer_address up to its await of ecdsa_public_key: a
\* caller that is not an admin gets Err(NotAuthorized.to_string()), no trap
derive_relayer_address(caller) ==
    /\ derive.pc = "idle"
    /\ IF ~ensure_admin(caller).ok
       THEN /\ reply' = Reply("derive_relayer_address", 0, Fail(ErrNotAuthorized))
            /\ UNCHANGED <<relayer_state, JSON_RPC_ID, now, runs, refresh, derive>>
       ELSE /\ derive' = [pc |-> "public_key",
                          key_name |-> config.ecdsa_key_name,
                          derivation_path |-> config.ecdsa_derivation_path]
            /\ reply' = None
            /\ UNCHANGED <<relayer_state, JSON_RPC_ID, now, runs, refresh>>

\* derive_relayer_address after its await.  A public-key response is
\* [kind, code, message, valid, address]: whether the bytes parse as a SEC1
\* key, and the last 20 bytes of the keccak256 of the uncompressed point
\* (whose encoding is always 65 bytes long, so line 694 never returns)
AfterPublicKey(pk) ==
    /\ derive.pc = "public_key"
    /\ derive' = IdleDerive
    /\ IF pk.kind = "reject"
       THEN /\ reply' = DeriveReply(FALSE, <<"ecdsa_public_key failed ", pk.code,
                                             ": ", pk.message>>)
            /\ UNCHANGED <<relayer_state, JSON_RPC_ID, now, runs, refresh>>
       ELSE IF ~pk.valid
       THEN /\ reply' = DeriveReply(FALSE, <<"invalid public key bytes: ",
                                             pk.message>>)
            /\ UNCHANGED <<relayer_state, JSON_RPC_ID, now, runs, refresh>>
       ELSE /\ config' = [config EXCEPT !.evm_addr = Some(<<"0x", pk.address>>)]
            /\ reply' = DeriveReply(TRUE, <<"0x", pk.address>>)
            /\ UNCHANGED <<admins, assets, rate_limit, rate_state, logs, next_log_id,
                           last_known_gas, JSON_RPC_ID, now, runs, refresh>>

\* BTreeMap::insert
MapPut(m, k, v) == [x \in (DOMAIN m) \cup {k} |-> IF x = k THEN v ELSE m[x]]

\* fee_bps is a Nat [fits_u64, val]; u16::MAX = 65535
add_asset(caller, asset, evm_address, fee_bps) ==
    IF ~ensure_admin(caller).ok THEN Trapped("add_asset", ErrNotAuthorized)
    ELSE IF ~(fee_bps.fits_u64 /\ fee_bps.val <= 65535)
    THEN /\ reply' = TrapMessage("add_asset", <<"fee_bps out of range">>)
         /\ UNCHANGED <<relayer_state, JSON_RPC_ID, now, runs, refresh, derive>>
    ELSE LET normalized == normalize_evm_address(evm_address)
         IN  IF ~normalized.ok THEN Trapped("add_asset", normalized.err)
             ELSE /\ assets' = MapPut(assets, asset,
                                  [evm_address |-> normalized.val, status |-> "Active",
                                   fee_bps |-> fee_bps.val, version |-> 1])
                  /\ reply' = Done("add_asset")
                  /\ UNCHANGED <<admins, config, rate_limit, rate_state, logs,
                                 next_log_id, last_known_gas, JSON_RPC_ID, now, runs,
                                 refresh, derive>>

deprecate_asset(caller, asset) ==
    IF ~ensure_admin(caller).ok THEN Trapped("deprecate_asset", ErrNotAuthorized)
    ELSE /\ assets' = IF asset \in DOMAIN assets
                      THEN [assets EXCEPT ![asset].status = "Deprecated"]
                      ELSE assets
         /\ reply' = Done("deprecate_asset")
         /\ UNCHANGED <<admins, config, rate_limit, rate_state, logs, next_log_id,
                        last_known_gas, JSON_RPC_ID, now, runs, refresh, derive>>

disable_asset(caller, asset) ==
    IF ~ensure_admin(caller).ok THEN Trapped("disable_asset", ErrNotAuthorized)
    ELSE /\ assets' = IF asset \in DOMAIN assets
                      THEN [assets EXCEPT ![asset].status = "Disabled"]
                      ELSE assets
         /\ reply' = Done("disable_asset")
         /\ UNCHANGED <<admins, config, rate_limit, rate_state, logs, next_log_id,
                        last_known_gas, JSON_RPC_ID, now, runs, refresh, derive>>

pause(caller, flag) ==
    IF ~ensure_admin(caller).ok THEN Trapped("pause", ErrNotAuthorized)
    ELSE /\ config' = [config EXCEPT !.paused = flag]
         /\ reply' = Done("pause")
         /\ UNCHANGED <<admins, assets, rate_limit, rate_state, logs, next_log_id,
                        last_known_gas, JSON_RPC_ID, now, runs, refresh, derive>>

\* the canister's clock moves on between two messages
Tick(t) ==
    /\ t > now
    /\ now' = t
    /\ reply' = None
    /\ UNCHANGED <<relayer_state, JSON_RPC_ID, runs, refresh, derive>>

(***************************************************************************)
(* Rate limiter.                                                           *)
(***************************************************************************)
\* impl Default for RateWindowCounter
DefaultCounter == [window_start_sec |-> 0, amount |-> NatZero, hits |-> 0]

\* BTreeMap::entry(key).or_default()
EntryOrDefault(m, key) == IF key \in DOMAIN m THEN m[key] ELSE DefaultCounter

\* a counter untouched by the change of window
ResetIfStale_Never(counter, window) == counter

ResetIfStale(counter, window) ==
    IF counter.window_start_sec # window
    THEN [window_start_sec |-> window, amount |-> NatZero, hits |-> 0]
    ELSE counter

\* a cap computed even for a bound of 0
daily_cap_in_smallest_unit_NoDisable(rl) ==
    Some(NatScale(rl.daily_cap_token, JPYC_UNIT_MULTIPLIER))

daily_cap_in_smallest_unit(rl) ==
    IF rl.daily_cap_token = 0 THEN None
    ELSE Some(NatScale(rl.daily_cap_token, JPYC_UNIT_MULTIPLIER))

\* a limit that admits one submission more
Exhausted_OffByOne(hits, limit) == hits > limit

\* line 1308
Exhausted(hits, limit) == hits >= limit

\* the per-minute rule: [ok, map]
PerMinuteRule(rl, m, from, amount, now_sec) ==
    IF rl.per_addr_per_min > 0
    THEN LET window  == now_sec \div 60
             counter == ResetIfStale(EntryOrDefault(m, from), window)
         IN  IF Exhausted(counter.hits, rl.per_addr_per_min)
             THEN [ok |-> FALSE, map |-> MapPut(m, from, counter)]
             ELSE [ok |-> TRUE,
                   map |-> MapPut(m, from,
                              [counter EXCEPT !.hits = @ + 1,
                                              !.amount = NatAdd(@, amount)])]
    ELSE [ok |-> TRUE, map |-> m]

\* a daily rule that checks the cap before it commits the counter
DailyRule_CheckFirst(rl, m, from, amount, now_sec) ==
    LET cap == daily_cap_in_smallest_unit(rl)
    IN  IF IsSome(cap)
        THEN LET window  == now_sec \div 86400
                 counter == ResetIfStale(EntryOrDefault(m, from), window)
                 bumped  == [counter EXCEPT !.hits = @ + 1,
                                            !.amount = NatAdd(@, amount)]
             IN  IF NatGT(bumped.amount, Unwrap(cap))
                 THEN [ok |-> FALSE, map |-> MapPut(m, from, counter)]
                 ELSE [ok |-> TRUE, map |-> MapPut(m, from, bumped)]
        ELSE [ok |-> TRUE, map |-> m]

\* a daily rule that also refuses an amount equal to the cap
DailyRule_CapInclusive(rl, m, from, amount, now_sec) ==
    LET cap == daily_cap_in_smallest_unit(rl)
    IN  IF IsSome(cap)
        THEN LET window  == now_sec \div 86400
                 counter == ResetIfStale(EntryOrDefault(m, from), window)
                 bumped  == [counter EXCEPT !.hits = @ + 1,
                                            !.amount = NatAdd(@, amount)]
             IN  [ok |-> NatGT(Unwrap(cap), bumped.amount),
                  map |-> MapPut(m, from, bumped)]
        ELSE [ok |-> TRUE, map |-> m]

\* the daily rule: [ok, map]
\* a daily rule that measures every submission against an empty counter
DailyRule_NoCarry(rl, m, from, amount, now_sec) ==
    LET cap == daily_cap_in_smallest_unit(rl)
    IN  IF IsSome(cap)
        THEN LET window  == now_sec \div 86400
                 counter == [window_start_sec |-> window, amount |-> NatZero,
                             hits |-> 0]
                 bumped  == [counter EXCEPT !.hits = @ + 1,
                                            !.amount = NatAdd(@, amount)]
             IN  [ok |-> ~NatGT(bumped.amount, Unwrap(cap)),
                  map |-> MapPut(m, from, bumped)]
        ELSE [ok |-> TRUE, map |-> m]

DailyRule(rl, m, from, amount, now_sec) ==
    LET cap == daily_cap_in_smallest_unit(rl)
    IN  IF IsSome(cap)
        THEN LET window  == now_sec \div 86400
                 counter == ResetIfStale(EntryOrDefault(m, from), window)
                 bumped  == [counter EXCEPT !.hits = @ + 1,
                                            !.amount = NatAdd(@, amount)]
             IN  [ok |-> ~NatGT(bumped.amount, Unwrap(cap)),
                  map |-> MapPut(m, from, bumped)]
        ELSE [ok |-> TRUE, map |-> m]

\* a limiter that undoes the per-minute update when the daily rule refuses
enforce_rate_limits_RollBack(rl, rs, from, amount, now_sec) ==
    LET pm == PerMinuteRule(rl, rs.per_min_counter, from, amount, now_sec)
    IN  IF ~pm.ok
        THEN [result |-> Fail(ErrRateLimited),
              rate_state |-> [rs EXCEPT !.per_min_counter = pm.map]]
        ELSE LET d == DailyRule(rl, rs.daily_counter, from, amount, now_sec)
             IN  [result |-> IF d.ok THEN Ok(<< >>) ELSE Fail(ErrRateLimited),
                  rate_state |-> [per_min_counter |-> IF d.ok THEN pm.map
                                                      ELSE rs.per_min_counter,
                                  daily_counter |-> d.map]]

\* fn enforce_rate_limits: the result and the rate state it leaves (the
\* mutation made before an Err return stays)
enforce_rate_limits(rl, rs, from, amount, now_sec) ==
    LET pm == PerMinuteRule(rl, rs.per_min_counter, from, amount, now_sec)
    IN  IF ~pm.ok
        THEN [result |-> Fail(ErrRateLimited),
              rate_state |-> [rs EXCEPT !.per_min_counter = pm.map]]
        ELSE LET d == DailyRule(rl, rs.daily_counter, from, amount, now_sec)
             IN  [result |-> IF d.ok THEN Ok(<< >>) ELSE Fail(ErrRateLimited),
                  rate_state |-> [per_min_counter |-> pm.map,
                                  daily_counter |-> d.map]]

(***************************************************************************)
(* Durable log.                                                            *)
(***************************************************************************)
\* the index of the first entry with the id (Iterator::find), 0 when none
FindLog(L, log_id) ==
    IF \E i \in 1..Len(L) : L[i].id = log_id
    THEN CHOOSE i \in 1..Len(L) :
            L[i].id = log_id /\ \A j \in 1..(i - 1) : L[j].id # log_id
    ELSE 0

\* a failure written to the newest entry, whatever the id
mark_log_failure_Newest(L, log_id, reason) ==
    IF L = << >> THEN L
    ELSE [L EXCEPT ![Len(L)].status = "Failed", ![Len(L)].fail_reason = Some(reason)]

\* a failure that is never written
mark_log_failure_Skipped(L, log_id, reason) == L

mark_log_failure(L, log_id, reason) ==
    LET i == FindLog(L, log_id)
    IN  IF i = 0 THEN L
        ELSE [L EXCEPT ![i].status = "Failed", ![i].fail_reason = Some(reason)]

\* a success written to every entry that is still Accepted
mark_log_success_AllAccepted(L, log_id, tx_hash) ==
    [i \in 1..Len(L) |->
        IF L[i].status = "Accepted"
        THEN [L[i] EXCEPT !.status = "Broadcasted", !.tx_hash = Some(tx_hash),
                          !.fail_reason = None]
        ELSE L[i]]

\* a success that records the status without the transaction hash
mark_log_success_NoHash(L, log_id, tx_hash) ==
    LET i == FindLog(L, log_id)
    IN  IF i = 0 THEN L
        ELSE [L EXCEPT ![i].status = "Broadcasted", ![i].fail_reason = None]

mark_log_success(L, log_id, tx_hash) ==
    LET i == FindLog(L, log_id)
    IN  IF i = 0 THEN L
        ELSE [L EXCEPT ![i].status = "Broadcasted", ![i].tx_hash = Some(tx_hash),
                       ![i].fail_reason = None]

\* an entry pushed with the id of the first reservation
NewLog_SameId(id, now_sec, req, from_hex, to_hex) ==
    [id |-> 1, ts_sec |-> now_sec, asset |-> req.asset, from |-> from_hex,
     to |-> to_hex, value |-> req.value, status |-> "Accepted",
     tx_hash |-> None, fail_reason |-> None]

\* the entry pushed at reservation
NewLog(id, now_sec, req, from_hex, to_hex) ==
    [id |-> id, ts_sec |-> now_sec, asset |-> req.asset, from |-> from_hex,
     to |-> to_hex, value |-> req.value, status |-> "Accepted",
     tx_hash |-> None, fail_reason |-> None]

(***************************************************************************)
(* JSON-RPC transport.                                                     *)
(***************************************************************************)
\* a network tag is [prefix, rest]: the text prefix followed by rest
PresetNetworks == {"polygon-amoy", "polygon-mainnet", "eth-mainnet", "eth-sepolia",
                   "arbitrum-one", "base-mainnet", "optimism-mainnet"}
DecimalU64 == {"1", "137", "80002"}

resolve_rpc_service(network) ==
    IF network.prefix = "" /\ network.rest = ""
    THEN Fail(ErrConfigurationMissing("rpc_target.network"))
    ELSE IF network.prefix = "provider:"
    THEN IF network.rest \in DecimalU64 THEN Ok(<<"Provider", network.rest>>)
         ELSE Fail(ErrConfigurationMissing("invalid provider id"))
    ELSE IF network.prefix = "custom:"
    THEN IF network.rest = ""
         THEN Fail(ErrConfigurationMissing("rpc_target.network (custom url)"))
         ELSE Ok(<<"Custom", network.rest>>)
    ELSE IF network.prefix \in {"http://", "https://"}
    THEN Ok(<<"Custom", network.prefix, network.rest>>)
    ELSE IF network.rest \in PresetNetworks THEN Ok(<<"Preset", network.rest>>)
    ELSE Fail(ErrConfigurationMissing("unsupported rpc network"))

get_rpc_target ==
    IF IsSome(config.rpc_target) THEN Ok(Unwrap(config.rpc_target))
    ELSE Fail(ErrConfigurationMissing("rpc_target"))

\* rpc_request up to its await: the target the call is sent to, or the error
\* that ends the request before any call is made
RpcDispatch ==
    LET target == get_rpc_target
    IN  IF ~target.ok THEN target
        ELSE LET service == resolve_rpc_service(target.val.network)
             IN  IF ~service.ok THEN service ELSE target

\* JSON values: a string, an object (of which only baseFeePerGas is read), other
JString(s) == [t |-> "string", s |-> s, base |-> None]
JObject(base) == [t |-> "object", s |-> << >>, base |-> base]
JOther == [t |-> "other", s |-> << >>, base |-> None]
as_str(json) == IF json.t = "string" THEN Some(json.s) ELSE None

\* what the backend canister answers: [kind, code, message, json]
Resp(kind, code, message, json) ==
    [kind |-> kind, code |-> code, message |-> message, json |-> json]
RespResult(json) == Resp("result", 0, << >>, json)
RespReject == Resp("reject", 0, <<"canister rejected the call">>, JOther)
RespError == Resp("body_error", 3, <<"execution reverted">>, JOther)

\* fn relay_error_from_rpc_error
relay_error_from_rpc_error(resp) ==
    CASE resp.kind = "err_json_rpc" -> ErrRpcError(resp.code, resp.message)
      [] resp.kind = "err_provider" -> ErrRpcTransportError("ProviderError", resp.message)
      [] resp.kind = "err_validation" -> ErrRpcError(-32000, resp.message)
      [] OTHER -> ErrRpcTransportError("HttpOutcallError", resp.message)

\* rpc_request after its await
rpc_response(resp) ==
    CASE resp.kind = "reject" -> Fail(ErrRpcTransportError("SysTransient", resp.message))
      [] resp.kind \in {"err_json_rpc", "err_provider", "err_validation", "err_http"} ->
            Fail(relay_error_from_rpc_error(resp))
      [] resp.kind = "body_not_json" -> Fail(ErrJsonError(resp.message))
      [] resp.kind = "body_error" -> Fail(ErrRpcError(resp.code, resp.message))
      [] resp.kind = "body_no_result" -> Fail(ErrRpcResultTypeMismatch("result"))
      [] OTHER -> Ok(resp.json)

HexStringOf(value, expected) ==
    IF IsSome(as_str(value)) THEN Ok(Unwrap(as_str(value)))
    ELSE Fail(ErrRpcResultTypeMismatch(expected))

(***************************************************************************)
(* ABI codec.  Call data is kept as its selector and its 32-byte words.    *)
(***************************************************************************)
encode_bytes32(value) ==
    IF value.len # 32 THEN Fail(ErrInvalidNonceLength(32, value.len)) ELSE Ok(value)

encode_uint_nat(n) ==
    IF ~n.fits_u256 THEN Fail(ErrNumberOutOfRange("uint256")) ELSE Ok(n)

encode_authorization_state_call(from, nonce) ==
    LET n == encode_bytes32(nonce)
    IN  IF ~n.ok THEN n
        ELSE Ok([selector |-> "authorizationState(address,bytes32)",
                 words |-> <<from, n.val>>])

encode_transfer_with_authorization_call(req) ==
    IF req.sig_r.len # 32
    THEN Fail(ErrInvalidSignatureLength("sig_r", 32, req.sig_r.len))
    ELSE IF req.sig_s.len # 32
    THEN Fail(ErrInvalidSignatureLength("sig_s", 32, req.sig_s.len))
    ELSE IF ~encode_uint_nat(req.valid_after).ok THEN encode_uint_nat(req.valid_after)
    ELSE IF ~encode_uint_nat(req.valid_before).ok THEN encode_uint_nat(req.valid_before)
    ELSE IF ~encode_bytes32(req.nonce).ok THEN encode_bytes32(req.nonce)
    ELSE Ok([selector |-> "transferWithAuthorization",
             words |-> <<req.from, req.to, req.value, req.valid_after,
                         req.valid_before, req.nonce, req.sig_v, req.sig_r,
                         req.sig_s>>])

(***************************************************************************)
(* Fee and gas arithmetic.                                                 *)
(***************************************************************************)
\* fn scale_nat: ceil(value * multiplier) through f64
scale_nat(value, multiplier) ==
    IF multiplier.kind # "finite" THEN Fail(ErrNumberOutOfRange("scaled nat"))
    ELSE LET scaled ==
                 IF multiplier.num >= 0
                 THEN (value * multiplier.num + multiplier.den - 1) \div multiplier.den
                 ELSE 0 - ((value * (0 - multiplier.num)) \div multiplier.den)
         IN  IF scaled < 0 THEN Fail(ErrNumberOutOfRange("scaled nat"))
             ELSE Ok(scaled)

\* the scaling without the 50000 minimum
GasLimit_NoMinimum(gas_estimate) ==
    LET scaled == scale_nat(gas_estimate, Rational(6, 5))
    IN  IF ~scaled.ok THEN scaled
        ELSE Ok(IF scaled.val < gas_estimate THEN gas_estimate ELSE scaled.val)

\* lines 954-971
GasLimit(gas_estimate) ==
    LET floored == IF gas_estimate < 50000 THEN 50000 ELSE gas_estimate
        scaled  == scale_nat(floored, Rational(6, 5))
    IN  IF ~scaled.ok THEN scaled
        ELSE Ok(IF scaled.val < gas_estimate THEN gas_estimate ELSE scaled.val)

\* the priority fee without the 1 gwei replacement of zero
PriorityFeeEffective_NoGwei(priority_fee, priority_multiplier) ==
    LET scaled == scale_nat(priority_fee, priority_multiplier)
    IN  IF ~scaled.ok THEN scaled
        ELSE Ok(IF scaled.val < priority_fee THEN priority_fee ELSE scaled.val)

\* lines 989-1007
PriorityFeeEffective(priority_fee, priority_multiplier) ==
    LET scaled == scale_nat(priority_fee, priority_multiplier)
    IN  IF ~scaled.ok THEN scaled
        ELSE LET v == IF scaled.val < priority_fee THEN priority_fee ELSE scaled.val
             IN  Ok(IF v = 0 THEN 1000000000 ELSE v)

\* lines 1009-1021
BaseFeeScaled(base_fee, max_fee_multiplier) ==
    LET scaled == scale_nat(base_fee, max_fee_multiplier)
    IN  IF ~scaled.ok THEN scaled
        ELSE Ok(IF scaled.val < base_fee THEN base_fee ELSE scaled.val)

(***************************************************************************)
(* Remote signer adapter.                                                  *)
(* A signer response is [kind, message, signature, valid, rec]: the bytes  *)
(* returned, whether (r, s) parse as a secp256k1 signature, and for each   *)
(* recovery id 0..3 the address recovered from the digest ("none" when     *)
(* recovery fails).                                                        *)
(***************************************************************************)
RECURSIVE trim_leading_zeroes(_)
trim_leading_zeroes(data) ==
    IF data = << >> THEN << >>
    ELSE IF data[1] = 0 THEN trim_leading_zeroes(Tail(data))
    ELSE data

\* a search that keeps the last matching recovery id
derive_y_parity_LastMatch(sresp, expected_address) ==
    IF ~sresp.valid
    THEN Fail(ErrSignatureRecoveryFailed(<<"invalid signature bytes">>))
    ELSE IF \E i \in 1..4 : sresp.rec[i] = expected_address.tag
    THEN LET i == CHOOSE k \in 1..4 :
                    /\ sresp.rec[k] = expected_address.tag
                    /\ \A j \in (k + 1)..4 : sresp.rec[j] # expected_address.tag
         IN  Ok((i - 1) % 2)
    ELSE Fail(ErrSignatureRecoveryFailed(
                <<"no recovery id produced expected relayer address">>))

derive_y_parity(sresp, expected_address) ==
    IF ~sresp.valid
    THEN Fail(ErrSignatureRecoveryFailed(<<"invalid signature bytes">>))
    ELSE IF \E i \in 1..4 : sresp.rec[i] = expected_address.tag
    THEN LET i == CHOOSE k \in 1..4 :
                    /\ sresp.rec[k] = expected_address.tag
                    /\ \A j \in 1..(k - 1) : sresp.rec[j] # expected_address.tag
         IN  Ok((i - 1) % 2)
    ELSE Fail(ErrSignatureRecoveryFailed(
                <<"no recovery id produced expected relayer address">>))

\* lines 1642-1651
SignatureParts(r_bytes, s_bytes, y_parity) ==
    LET r == trim_leading_zeroes(r_bytes)
        s == trim_leading_zeroes(s_bytes)
    IN  [y_parity |-> y_parity,
         r |-> IF r = << >> THEN <<0>> ELSE r,
         s |-> IF s = << >> THEN <<0>> ELSE s]

\* sign_prehashed_message after its await
sign_response(sresp, expected_address) ==
    IF sresp.kind = "reject"
    THEN Fail(ErrRpcTransportError("CanisterReject", sresp.message))
    ELSE LET sig == sresp.signature
         IN  IF Len(sig) = 65
             THEN Ok(SignatureParts(SubSeq(sig, 1, 32), SubSeq(sig, 33, 64), sig[65]))
             ELSE IF Len(sig) = 64
             THEN LET y == derive_y_parity(sresp, expected_address)
                  IN  IF ~y.ok THEN y
                      ELSE Ok(SignatureParts(SubSeq(sig, 1, 32), SubSeq(sig, 33, 64),
                                             y.val))
             ELSE Fail(ErrInvalidSignatureLength("signature", 64, Len(sig)))

(***************************************************************************)
(* submit_authorization: the admission checks (lines 796-842).             *)
(***************************************************************************)
\* an expiry check that lets valid_before = now through
Expired_Late(valid_before, now_sec) == valid_before < now_sec

\* line 837
Expired(valid_before, now_sec) == valid_before <= now_sec

\* a status check that refuses deprecated assets
AssetAccepts_ActiveOnly(status) == status = "Active"

\* lines 817-820
AssetAccepts(status) == status \in {"Active", "Deprecated"}

\* lines 800-842: the checks that follow the pause gate; Ok carries the
\* values the rest of the call uses
\* the admission checks with the expiry checked before the asset
AdmissionChecks_ExpiryFirst(req) ==
    IF req.from.len # 20
    THEN Fail(ErrInvalidAddressLength("from", 20, req.from.len))
    ELSE IF req.to.len # 20
    THEN Fail(ErrInvalidAddressLength("to", 20, req.to.len))
    ELSE IF ~nat_to_u64(req.valid_before).ok
    THEN Fail(ErrNumberOutOfRange("valid_before"))
    ELSE IF Expired(nat_to_u64(req.valid_before).val, now)
    THEN Fail(ErrAuthorizationExpired)
    ELSE IF req.asset \notin DOMAIN assets THEN Fail(ErrAssetNotRegistered)
    ELSE IF ~AssetAccepts(assets[req.asset].status) THEN Fail(ErrAssetNotActive)
    ELSE Ok([asset_cfg |-> assets[req.asset],
             from_hex |-> to_hex_address(req.from).val,
             to_hex |-> to_hex_address(req.to).val])

AdmissionChecks(req) ==
    IF req.from.len # 20
    THEN Fail(ErrInvalidAddressLength("from", 20, req.from.len))
    ELSE IF req.to.len # 20
    THEN Fail(ErrInvalidAddressLength("to", 20, req.to.len))
    ELSE IF req.asset \notin DOMAIN assets THEN Fail(ErrAssetNotRegistered)
    ELSE IF ~AssetAccepts(assets[req.asset].status) THEN Fail(ErrAssetNotActive)
    ELSE IF ~nat_to_u64(req.valid_before).ok
    THEN Fail(ErrNumberOutOfRange("valid_before"))
    ELSE IF Expired(nat_to_u64(req.valid_before).val, now)
    THEN Fail(ErrAuthorizationExpired)
    ELSE IF ~to_hex_address(req.from).ok THEN to_hex_address(req.from)
    ELSE IF ~to_hex_address(req.to).ok THEN to_hex_address(req.to)
    ELSE Ok([asset_cfg |-> assets[req.asset],
             from_hex |-> to_hex_address(req.from).val,
             to_hex |-> to_hex_address(req.to).val])

\* admission without the pause gate
PreChecks_NoGate(req) == AdmissionChecks(req)

\* admission with the pause gate placed after the length checks
PreChecks_GateLate(req) ==
    IF req.from.len # 20 \/ req.to.len # 20 THEN AdmissionChecks(req)
    ELSE IF config.paused THEN Fail(ErrPaused)
    ELSE AdmissionChecks(req)

\* lines 796-842: everything checked before the rate limiter is entered
PreChecks(req) ==
    IF config.paused THEN Fail(ErrPaused) ELSE AdmissionChecks(req)

(***************************************************************************)
(* submit_authorization: from the reservation to the first await           *)
(* (lines 863-907 and ensure_authorization_unused up to its await).        *)
(***************************************************************************)
Stop(e, reason, json_id) ==
    [pending |-> FALSE, err |-> e, reason |-> reason, json_id |-> json_id,
     run |-> IdleRun]

(***************************************************************************)
(* RLP codec (lines 1336-1413).  A byte string is a sequence of cells: a   *)
(* cell [byte |-> b] is the byte b, a cell [blob |-> c, len |-> n] stands  *)
(* for the n > 1 bytes of the content c (an address, a call payload).      *)
(***************************************************************************)
Cells(bytes) == [i \in 1..Len(bytes) |-> [byte |-> bytes[i]]]
Blob(content, len) == <<[blob |-> content, len |-> len]>>
IsByte(cell) == "byte" \in DOMAIN cell

RECURSIVE ByteLenFrom(_, _)
\* the number of bytes in the cells i.. of data
ByteLenFrom(data, i) ==
    IF i > Len(data) THEN 0
    ELSE (IF IsByte(data[i]) THEN 1 ELSE data[i].len) + ByteLenFrom(data, i + 1)

\* data.len()
ByteLen(data) == CHOOSE len \in {ByteLenFrom(bytes, 1) : bytes \in {data}} : TRUE

RECURSIVE to_bytes_be(_)
\* BigUint::to_bytes_be: the big-endian digits, one zero byte for zero
to_bytes_be(n) ==
    IF n < 256 THEN <<n>> ELSE Append(to_bytes_be(n \div 256), n % 256)

\* lines 1348-1351
nat_to_be_bytes(value) == trim_leading_zeroes(to_bytes_be(value))

RECURSIVE LengthDigits(_)
LengthDigits(value) ==
    IF value = 0 THEN << >> ELSE Append(LengthDigits(value \div 256), value % 256)

\* lines 1353-1366
length_to_bytes(len) ==
    IF LengthDigits(len) = << >> THEN <<0>> ELSE LengthDigits(len)

\* an encoder that gives every byte string a length prefix
rlp_encode_bytes_AlwaysPrefixed(data) ==
    IF ByteLen(data) <= 55
    THEN <<[byte |-> 128 + ByteLen(data)]>> \o data
    ELSE <<[byte |-> 183 + Len(length_to_bytes(ByteLen(data)))]>>
             \o Cells(length_to_bytes(ByteLen(data))) \o data

\* lines 1368-1387; the data and its length are computed once
rlp_encode_bytes(data) ==
    CHOOSE encoded \in
        {IF len = 0 THEN <<[byte |-> 128]>>
         ELSE IF len = 1 /\ bytes[1].byte < 128 THEN <<bytes[1]>>
         ELSE IF len <= 55 THEN <<[byte |-> 128 + len]>> \o bytes
         ELSE <<[byte |-> 183 + Len(length_to_bytes(len))]>>
                  \o Cells(length_to_bytes(len)) \o bytes :
            bytes \in {data}, len \in {ByteLen(data)}} : TRUE

\* lines 1389-1392
rlp_encode_nat_value(value) == rlp_encode_bytes(Cells(nat_to_be_bytes(value)))

RECURSIVE ConcatFrom(_, _)
ConcatFrom(items, i) ==
    IF i > Len(items) THEN << >> ELSE items[i] \o ConcatFrom(items, i + 1)

\* the items one after the other
Concat(items) == CHOOSE all \in {ConcatFrom(list, 1) : list \in {items}} : TRUE

\* the header of a list whose payload has payload_len bytes
ListHeader(payload_len) ==
    IF payload_len <= 55 THEN <<[byte |-> 192 + payload_len]>>
    ELSE <<[byte |-> 247 + Len(length_to_bytes(payload_len))]>>
             \o Cells(length_to_bytes(payload_len))

\* lines 1394-1413; the items and the payload are computed once
rlp_encode_list(items) ==
    CHOOSE encoded \in
        {ListHeader(payload_len) \o payload :
            payload \in {Concat(items)},
            payload_len \in {ByteLen(Concat(items))}} : TRUE

\* lines 1053-1076: the fields of the EIP-1559 transaction, in RLP order
UnsignedItems(run) ==
    <<run.chain_id.val, run.nonce, run.priority_fee_effective, run.max_fee_per_gas,
      run.gas_limit, evm_address_bytes(run.asset_cfg.evm_address).val, 0,
      encode_transfer_with_authorization_call(run.req).val, << >>>>

\* lines 1061-1070: the encoded items of the unsigned envelope
unsigned_items(run) ==
    <<rlp_encode_nat_value(run.chain_id.val),
      rlp_encode_nat_value(run.nonce),
      rlp_encode_nat_value(run.priority_fee_effective),
      rlp_encode_nat_value(run.max_fee_per_gas),
      rlp_encode_nat_value(run.gas_limit),
      rlp_encode_bytes(Blob(evm_address_bytes(run.asset_cfg.evm_address).val.tag, 20)),
      rlp_encode_nat_value(0),
      rlp_encode_bytes(Blob(encode_transfer_with_authorization_call(run.req).val,
                            4 + 32 * 9)),
      rlp_encode_list(<< >>)>>

\* lines 1072-1075: 0x02 followed by the RLP list of the unsigned items
signing_payload(run) == <<[byte |-> 2]>> \o rlp_encode_list(unsigned_items(run))

\* signed items with the signature placed before the transaction fields
signed_items_SignatureFirst(run) ==
    <<rlp_encode_nat_value(Unwrap(run.signature).y_parity),
      rlp_encode_bytes(Cells(Unwrap(run.signature).r)),
      rlp_encode_bytes(Cells(Unwrap(run.signature).s))>>
        \o unsigned_items(run)

\* lines 1093-1096
signed_items(run) ==
    unsigned_items(run)
        \o <<rlp_encode_nat_value(Unwrap(run.signature).y_parity),
              rlp_encode_bytes(Cells(Unwrap(run.signature).r)),
              rlp_encode_bytes(Cells(Unwrap(run.signature).s))>>

\* the argument of sign_with_ecdsa (lines 1605-1612)
SignArgument(run) ==
    [message_hash |-> [keccak256 |-> signing_payload(run)],
     derivation_path |-> run.derivation_path,
     key_id |-> [curve |-> "secp256k1", name |-> run.ecdsa_key_name]]

\* lines 1093-1101: the raw transaction handed to eth_sendRawTransaction
RawTransaction(run) == <<[byte |-> 2]>> \o rlp_encode_list(signed_items(run))

\* CallParams reading the relayer address and the asset from the state at
\* the time of the call
CallParams_CurrentConfig(run, pc) ==
    LET asset_address == assets[run.req.asset].evm_address
        from_address  == Unwrap(config.evm_addr)
        transfer == [from |-> from_address, to |-> asset_address,
                     data |-> <<"0x", encode_transfer_with_authorization_call(run.req).val>>]
    IN  CASE pc = "authorization_state" ->
                <<[to |-> asset_address,
                   data |-> <<"0x", encode_authorization_state_call(run.req.from,
                                                                    run.req.nonce).val>>],
                  "latest">>
          [] pc = "simulate" -> <<transfer, "latest">>
          [] pc = "estimate_gas" -> <<transfer>>
          [] pc = "base_fee" -> <<"latest", FALSE>>
          [] pc = "priority_fee" -> << >>
          [] pc = "balance" -> <<from_address, "latest">>
          [] pc = "nonce" -> <<from_address, "pending">>
          [] pc = "send" -> <<<<"0x", RawTransaction(run)>>>>

\* the params of the JSON-RPC request a run frames before the await that
\* leaves it at pc (lines 1699-1709, 1730-1741, 1756-1766, 1786-1791,
\* 1800-1805, 1814-1819, 1828-1833, 1852-1857)
CallParams(run, pc) ==
    LET asset_address == run.asset_cfg.evm_address
        transfer == [from |-> run.relayer_addr, to |-> asset_address,
                     data |-> <<"0x", encode_transfer_with_authorization_call(run.req).val>>]
    IN  CASE pc = "authorization_state" ->
                <<[to |-> asset_address,
                   data |-> <<"0x", encode_authorization_state_call(run.req.from,
                                                                    run.req.nonce).val>>],
                  "latest">>
          [] pc = "simulate" -> <<transfer, "latest">>
          [] pc = "estimate_gas" -> <<transfer>>
          [] pc = "base_fee" -> <<"latest", FALSE>>
          [] pc = "priority_fee" -> << >>
          [] pc = "balance" -> <<run.relayer_addr, "latest">>
          [] pc = "nonce" -> <<run.relayer_addr, "pending">>
          [] pc = "send" -> <<<<"0x", RawTransaction(run)>>>>

\* the locals a suspended run carries across its awaits, and the arguments
\* of the call it awaits
NewRun(req, log_id, asset_cfg, relayer_addr, chain_id_nat, target) ==
    [pc |-> "authorization_state", log_id |-> log_id, req |-> req,
     params |-> CallParams([req |-> req, asset_cfg |-> asset_cfg],
                           "authorization_state"),
     asset_cfg |-> asset_cfg,
     threshold_wei |-> config.threshold_wei,
     max_fee_multiplier |-> config.max_fee_multiplier,
     priority_multiplier |-> config.priority_multiplier,
     relayer_addr |-> relayer_addr,
     chain_id |-> chain_id_nat,
     ecdsa_key_name |-> config.ecdsa_key_name,
     derivation_path |-> config.ecdsa_derivation_path,
     target |-> target,
     calls |-> <<"authorizationState">>,
     gas_limit |-> 0, base_fee |-> 0, priority_fee_effective |-> 0,
     max_fee_per_gas |-> 0, nonce |-> 0, signature |-> None]

\* the configuration checks with the chain id looked at first
StartPipeline_ChainIdFirst(req, log_id, asset_cfg) ==
    IF IsNone(config.chain_id)
    THEN Stop(ErrConfigurationMissing("chain_id"), <<"chain id not configured">>,
              JSON_RPC_ID)
    ELSE IF IsNone(config.rpc_target)
    THEN Stop(ErrConfigurationMissing("rpc_target"), <<"rpc target not configured">>,
              JSON_RPC_ID)
    ELSE IF IsNone(config.evm_addr)
    THEN Stop(ErrRelayerAddressMissing, <<"relayer address not configured">>,
              JSON_RPC_ID)
    ELSE IF ~evm_address_bytes(Unwrap(config.evm_addr)).ok
    THEN Stop(evm_address_bytes(Unwrap(config.evm_addr)).err,
              Display(evm_address_bytes(Unwrap(config.evm_addr)).err), JSON_RPC_ID)
    ELSE IF ~nat_to_u64(Unwrap(config.chain_id)).ok
    THEN Stop(nat_to_u64(Unwrap(config.chain_id)).err,
              Display(nat_to_u64(Unwrap(config.chain_id)).err), JSON_RPC_ID)
    ELSE LET data == encode_authorization_state_call(req.from, req.nonce)
             d    == RpcDispatch
         IN  IF ~data.ok THEN Stop(data.err, Display(data.err), JSON_RPC_ID)
             ELSE IF ~d.ok THEN Stop(d.err, Display(d.err), JSON_RPC_ID + 1)
             ELSE [pending |-> TRUE, err |-> NoError, reason |-> << >>,
                   json_id |-> JSON_RPC_ID + 1,
                   run |-> NewRun(req, log_id, asset_cfg, Unwrap(config.evm_addr),
                                  Unwrap(config.chain_id), d.val)]

StartPipeline(req, log_id, asset_cfg) ==
    IF IsNone(config.rpc_target)
    THEN Stop(ErrConfigurationMissing("rpc_target"), <<"rpc target not configured">>,
              JSON_RPC_ID)
    ELSE IF IsNone(config.evm_addr)
    THEN Stop(ErrRelayerAddressMissing, <<"relayer address not configured">>,
              JSON_RPC_ID)
    ELSE IF ~evm_address_bytes(Unwrap(config.evm_addr)).ok
    THEN Stop(evm_address_bytes(Unwrap(config.evm_addr)).err,
              Display(evm_address_bytes(Unwrap(config.evm_addr)).err), JSON_RPC_ID)
    ELSE IF IsNone(config.chain_id)
    THEN Stop(ErrConfigurationMissing("chain_id"), <<"chain id not configured">>,
              JSON_RPC_ID)
    ELSE IF ~nat_to_u64(Unwrap(config.chain_id)).ok
    THEN Stop(nat_to_u64(Unwrap(config.chain_id)).err,
              Display(nat_to_u64(Unwrap(config.chain_id)).err), JSON_RPC_ID)
    ELSE LET data == encode_authorization_state_call(req.from, req.nonce)
             d    == RpcDispatch
         IN  IF ~data.ok THEN Stop(data.err, Display(data.err), JSON_RPC_ID)
             ELSE IF ~d.ok THEN Stop(d.err, Display(d.err), JSON_RPC_ID + 1)
             ELSE [pending |-> TRUE, err |-> NoError, reason |-> << >>,
                   json_id |-> JSON_RPC_ID + 1,
                   run |-> NewRun(req, log_id, asset_cfg, Unwrap(config.evm_addr),
                                  Unwrap(config.chain_id), d.val)]

\* #[update] submit_authorization, up to its first await; r is the slot of
\* the call among those in flight
submit_authorization(r, req) ==
    /\ runs[r].pc = "idle"
    /\ LET pre == PreChecks(req)
       IN  IF ~pre.ok
           THEN /\ reply' = SubmitReply(r, req, pre)
                /\ UNCHANGED <<relayer_state, JSON_RPC_ID, now, runs, refresh, derive>>
           ELSE LET rl == enforce_rate_limits(rate_limit, rate_state, pre.val.from_hex,
                                              req.value, now)
                IN  IF ~rl.result.ok
                    THEN /\ rate_state' = rl.rate_state
                         /\ reply' = SubmitReply(r, req, rl.result)
                         /\ UNCHANGED <<admins, config, assets, rate_limit, logs,
                                        next_log_id, last_known_gas, JSON_RPC_ID, now,
                                        runs, refresh, derive>>
                    ELSE LET id    == next_log_id
                             L     == Append(logs, NewLog(id, now, req, pre.val.from_hex,
                                                          pre.val.to_hex))
                             start == StartPipeline(req, id, pre.val.asset_cfg)
                         IN  /\ rate_state' = rl.rate_state
                             /\ next_log_id' = next_log_id + 1
                             /\ logs' = IF start.pending THEN L
                                        ELSE mark_log_failure(L, id, start.reason)
                             /\ JSON_RPC_ID' = start.json_id
                             /\ runs' = [runs EXCEPT ![r] = start.run]
                             /\ reply' = IF start.pending THEN None
                                         ELSE SubmitReply(r, req, Fail(start.err))
                             /\ UNCHANGED <<admins, config, assets, rate_limit,
                                            last_known_gas, now, refresh, derive>>

(***************************************************************************)
(* submit_authorization: the continuations, one per await.  The locals of  *)
(* a continuation are bound with \E x \in {e}, which computes e once.       *)
(***************************************************************************)
\* the call returns Err(e) after mark_log_failure(log_id, reason)
FailRun(r, e, reason, json_id, gas) ==
    /\ logs' = mark_log_failure(logs, runs[r].log_id, reason)
    /\ runs' = [runs EXCEPT ![r] = IdleRun]
    /\ reply' = SubmitReply(r, runs[r].req, Fail(e))
    /\ JSON_RPC_ID' = json_id
    /\ last_known_gas' = gas
    /\ UNCHANGED <<admins, config, assets, rate_limit, rate_state, next_log_id, now,
                   refresh, derive>>

\* NextCall framing its request with the id of the request before it
NextCall_SameId(r, run, method, pc, gas) ==
    LET d == RpcDispatch
    IN  IF ~d.ok THEN FailRun(r, d.err, Display(d.err), JSON_RPC_ID, gas)
        ELSE /\ \E params \in {CallParams(run, pc)} :
                    runs' = [runs EXCEPT ![r] =
                                [run EXCEPT !.pc = pc, !.target = d.val,
                                            !.calls = Append(@, method),
                                            !.params = params]]
             /\ last_known_gas' = gas
             /\ reply' = None
             /\ UNCHANGED <<admins, config, assets, rate_limit, rate_state, logs,
                            next_log_id, JSON_RPC_ID, now, refresh, derive>>

\* the run frames its next JSON-RPC request (next_json_rpc_id) and awaits
\* the backend, or rpc_request fails before the call is made
NextCall(r, run, method, pc, gas) ==
    LET d == RpcDispatch
    IN  IF ~d.ok THEN FailRun(r, d.err, Display(d.err), JSON_RPC_ID + 1, gas)
        ELSE /\ \E params \in {CallParams(run, pc)} :
                    runs' = [runs EXCEPT ![r] =
                                [run EXCEPT !.pc = pc, !.target = d.val,
                                            !.calls = Append(@, method),
                                            !.params = params]]
             /\ JSON_RPC_ID' = JSON_RPC_ID + 1
             /\ last_known_gas' = gas
             /\ reply' = None
             /\ UNCHANGED <<admins, config, assets, rate_limit, rate_state, logs,
                            next_log_id, now, refresh, derive>>

\* ensure_authorization_unused after its await
authorization_unused(resp) ==
    LET value == rpc_response(resp)
        hex   == IF value.ok THEN HexStringOf(value.val, "hex string") ELSE value
        bytes == IF hex.ok THEN parse_hex_bytes(hex.val) ELSE hex
    IN  IF ~bytes.ok THEN bytes
        ELSE IF decode_bool_abi(bytes.val).val THEN Fail(ErrAuthorizationAlreadyUsed)
        ELSE Ok(<< >>)

AfterAuthorizationState(r, resp) ==
    /\ runs[r].pc = "authorization_state"
    /\ \E unused \in {authorization_unused(resp)},
          data \in {encode_transfer_with_authorization_call(runs[r].req)} :
           IF ~unused.ok
           THEN FailRun(r, unused.err, Display(unused.err), JSON_RPC_ID, last_known_gas)
           ELSE IF ~data.ok
           THEN FailRun(r, data.err, Display(data.err), JSON_RPC_ID, last_known_gas)
           ELSE NextCall(r, runs[r], "eth_call", "simulate", last_known_gas)

\* simulate_transfer_call after its await
simulate_result(resp) ==
    LET value == rpc_response(resp)
    IN  IF value.ok THEN Ok(<< >>)
        ELSE IF value.err.kind = "RpcError"
        THEN Fail(ErrSimulationFailed(value.err.message))
        ELSE value

\* a run that goes on to eth_estimateGas whatever the simulation returned
AfterSimulate_IgnoresFailure(r, resp) ==
    /\ runs[r].pc = "simulate"
    /\ NextCall(r, runs[r], "eth_estimateGas", "estimate_gas", last_known_gas)

AfterSimulate(r, resp) ==
    /\ runs[r].pc = "simulate"
    /\ \E sim \in {simulate_result(resp)} :
           IF ~sim.ok
           THEN FailRun(r, sim.err, Display(sim.err), JSON_RPC_ID, last_known_gas)
           ELSE NextCall(r, runs[r], "eth_estimateGas", "estimate_gas", last_known_gas)

\* estimate_gas after its await
estimate_gas_result(resp) ==
    LET value == rpc_response(resp)
    IN  IF value.ok
        THEN LET hex == HexStringOf(value.val, "hex string")
                 n   == IF hex.ok THEN nat_from_hex(hex.val) ELSE hex
             IN  IF ~n.ok /\ n.err.kind = "HexDecodeFailed"
                 THEN Fail(ErrGasEstimateFailed(n.err.message))
                 ELSE n
        ELSE IF value.err.kind = "RpcError"
        THEN Fail(ErrGasEstimateFailed(value.err.message))
        ELSE value

AfterEstimateGas(r, resp) ==
    /\ runs[r].pc = "estimate_gas"
    /\ \E est \in {estimate_gas_result(resp)} :
       \E lim \in {IF est.ok THEN GasLimit(est.val) ELSE est} :
           IF ~lim.ok
           THEN FailRun(r, lim.err, Display(lim.err), JSON_RPC_ID, last_known_gas)
           ELSE NextCall(r, [runs[r] EXCEPT !.gas_limit = lim.val],
                         "eth_getBlockByNumber", "base_fee", last_known_gas)

\* fetch_balance, fetch_nonce, fetch_max_priority_fee after their await
quantity_result(resp) ==
    LET value == rpc_response(resp)
        hex   == IF value.ok THEN HexStringOf(value.val, "hex string") ELSE value
    IN  IF hex.ok THEN nat_from_hex_with_zero_default(hex.val) ELSE hex

\* fetch_base_fee after its await
base_fee_result(resp) ==
    LET value == rpc_response(resp)
    IN  IF ~value.ok THEN value
        ELSE IF value.val.t # "object"
        THEN Fail(ErrRpcResultTypeMismatch("block object"))
        ELSE IF IsNone(value.val.base)
        THEN Fail(ErrRpcResultTypeMismatch("baseFeePerGas"))
        ELSE nat_from_hex_with_zero_default(Unwrap(value.val.base))

AfterBaseFee(r, resp) ==
    /\ runs[r].pc = "base_fee"
    /\ \E base \in {base_fee_result(resp)} :
           IF ~base.ok
           THEN FailRun(r, base.err, Display(base.err), JSON_RPC_ID, last_known_gas)
           ELSE NextCall(r, [runs[r] EXCEPT !.base_fee = base.val],
                         "eth_maxPriorityFeePerGas", "priority_fee", last_known_gas)

AfterPriorityFee(r, resp) ==
    /\ runs[r].pc = "priority_fee"
    /\ \E run \in {runs[r]}, fee \in {quantity_result(resp)} :
       \E prio \in {IF fee.ok
                     THEN PriorityFeeEffective(fee.val, run.priority_multiplier)
                     ELSE fee} :
       \E base \in {IF prio.ok
                     THEN BaseFeeScaled(run.base_fee, run.max_fee_multiplier)
                     ELSE prio} :
           IF ~base.ok
           THEN FailRun(r, base.err, Display(base.err), JSON_RPC_ID, last_known_gas)
           ELSE NextCall(r, [run EXCEPT !.priority_fee_effective = prio.val,
                                        !.max_fee_per_gas = base.val + prio.val],
                         "eth_getBalance", "balance", last_known_gas)

\* a gate that reads the threshold of the configuration when the balance
\* arrives instead of the value held by the run
AfterBalance_CurrentThreshold(r, resp) ==
    /\ runs[r].pc = "balance"
    /\ \E run \in {runs[r]}, balance \in {quantity_result(resp)} :
           IF ~balance.ok
           THEN FailRun(r, balance.err, Display(balance.err), JSON_RPC_ID,
                        last_known_gas)
           ELSE IF balance.val < config.threshold_wei
           THEN FailRun(r, ErrGasBalanceLow(config.threshold_wei, balance.val),
                        <<"relayer gas below threshold">>, JSON_RPC_ID, balance.val)
           ELSE NextCall(r, run, "eth_getTransactionCount", "nonce", balance.val)

AfterBalance(r, resp) ==
    /\ runs[r].pc = "balance"
    /\ \E run \in {runs[r]}, balance \in {quantity_result(resp)} :
           IF ~balance.ok
           THEN FailRun(r, balance.err, Display(balance.err), JSON_RPC_ID,
                        last_known_gas)
           ELSE IF balance.val < run.threshold_wei
           THEN FailRun(r, ErrGasBalanceLow(run.threshold_wei, balance.val),
                        <<"relayer gas below threshold">>, JSON_RPC_ID, balance.val)
           ELSE NextCall(r, run, "eth_getTransactionCount", "nonce", balance.val)

AfterNonce(r, resp) ==
    /\ runs[r].pc = "nonce"
    /\ \E run \in {runs[r]}, nonce \in {quantity_result(resp)} :
       \E asset \in {evm_address_bytes(run.asset_cfg.evm_address)} :
           IF ~nonce.ok
           THEN FailRun(r, nonce.err, Display(nonce.err), JSON_RPC_ID, last_known_gas)
           ELSE IF ~asset.ok
           THEN FailRun(r, asset.err, Display(asset.err), JSON_RPC_ID, last_known_gas)
           ELSE /\ \E argument \in {SignArgument([run EXCEPT
                                                     !.nonce = nonce.val])} :
                       runs' = [runs EXCEPT ![r] =
                                   [run EXCEPT !.pc = "sign", !.nonce = nonce.val,
                                               !.calls = Append(@, "sign_with_ecdsa"),
                                               !.params = <<argument>>]]
                /\ reply' = None
                /\ UNCHANGED <<relayer_state, JSON_RPC_ID, now, refresh, derive>>

AfterSign(r, sresp) ==
    /\ runs[r].pc = "sign"
    /\ \E run \in {runs[r]} :
       \E sig \in {sign_response(sresp, evm_address_bytes(run.relayer_addr).val)} :
           IF ~sig.ok
           THEN FailRun(r, sig.err, Display(sig.err), JSON_RPC_ID, last_known_gas)
           ELSE NextCall(r, [run EXCEPT !.signature = Some(sig.val)],
                         "eth_sendRawTransaction", "send", last_known_gas)

\* send_raw_transaction taking a JSON-RPC error for a transaction hash
send_result_ErrorAsHash(resp) ==
    LET value == rpc_response(resp)
    IN  IF value.ok THEN HexStringOf(value.val, "transaction hash")
        ELSE IF value.err.kind = "RpcError" THEN Ok(<<"0", "x">>)
        ELSE value

\* send_raw_transaction after its await
send_result(resp) ==
    LET value == rpc_response(resp)
    IN  IF value.ok THEN HexStringOf(value.val, "transaction hash") ELSE value

AfterSend(r, resp) ==
    /\ runs[r].pc = "send"
    /\ \E tx_hash \in {send_result(resp)} :
           IF ~tx_hash.ok
           THEN FailRun(r, tx_hash.err, Display(tx_hash.err), JSON_RPC_ID,
                        last_known_gas)
           ELSE /\ logs' = mark_log_success(logs, runs[r].log_id, tx_hash.val)
                /\ runs' = [runs EXCEPT ![r] = IdleRun]
                /\ reply' = SubmitReply(r, runs[r].req, tx_hash)
                /\ UNCHANGED <<admins, config, assets, rate_limit, rate_state,
                               next_log_id, last_known_gas, JSON_RPC_ID, now, refresh, derive>>

(***************************************************************************)
(* #[query] logs (lines 586-616).                                          *)
(***************************************************************************)
\* the LogEntry built from a PaymentLog (lines 598-612)
LogEntry(log) ==
    [id |-> log.id, ts |-> log.ts_sec, from |-> log.from, to |-> log.to,
     value |-> log.value, tx |-> log.tx_hash,
     status |-> CASE log.status = "Accepted" -> "accepted"
                  [] log.status = "Broadcasted" -> "broadcasted"
                  [] log.status = "Failed" -> "failed",
     fail_reason |-> log.fail_reason]

\* the loop from the oldest entry on
RECURSIVE LogsLoop_Oldest(_, _, _, _, _)
LogsLoop_Oldest(L, i, start_after, limit, entries) ==
    IF i > Len(L) THEN entries
    ELSE IF IsSome(start_after) /\ L[i].id <= Unwrap(start_after)
    THEN LogsLoop_Oldest(L, i + 1, start_after, limit, entries)
    ELSE IF Len(entries) >= (IF limit < 1 THEN 1 ELSE limit) THEN entries
    ELSE LogsLoop_Oldest(L, i + 1, start_after, limit, Append(entries, LogEntry(L[i])))

logs_query_Oldest(start_after, limit) ==
    LogsLoop_Oldest(logs, 1, start_after, limit, << >>)

\* the loop over state.logs.iter().rev(), from position i down: an entry at
\* or below the cursor is skipped, the loop breaks at limit.max(1) entries
RECURSIVE LogsLoop(_, _, _, _, _)
LogsLoop(L, i, start_after, limit, entries) ==
    IF i = 0 THEN entries
    ELSE IF IsSome(start_after) /\ L[i].id <= Unwrap(start_after)
    THEN LogsLoop(L, i - 1, start_after, limit, entries)
    ELSE IF Len(entries) >= (IF limit < 1 THEN 1 ELSE limit) THEN entries
    ELSE LogsLoop(L, i - 1, start_after, limit, Append(entries, LogEntry(L[i])))

\* fn logs(start_after: Option<u64>, limit: u32) -> Vec<LogEntry>
logs_query(start_after, limit) == LogsLoop(logs, Len(logs), start_after, limit, << >>)

\* a call of the query: it answers and leaves the state as it is
logs_call(start_after, limit) ==
    /\ reply' = Reply("logs", 0, Ok(logs_query(start_after, limit)))
    /\ UNCHANGED <<relayer_state, JSON_RPC_ID, now, runs, refresh, derive>>

(***************************************************************************)
(* refresh_gas_balance (lines 705-727): no admin check.                    *)
(***************************************************************************)
RefreshReturns(result, json_id) ==
    /\ reply' = Reply("refresh_gas_balance", 0, result)
    /\ JSON_RPC_ID' = json_id
    /\ refresh' = IdleRefresh
    /\ UNCHANGED <<relayer_state, now, runs, derive>>

refresh_gas_balance ==
    /\ refresh.pc = "idle"
    /\ IF IsNone(config.evm_addr)
       THEN RefreshReturns(Fail(ErrRelayerAddressMissing), JSON_RPC_ID)
       ELSE IF IsNone(config.chain_id)
       THEN RefreshReturns(Fail(ErrConfigurationMissing("chain_id")), JSON_RPC_ID)
       ELSE IF ~nat_to_u64(Unwrap(config.chain_id)).ok
       THEN RefreshReturns(nat_to_u64(Unwrap(config.chain_id)), JSON_RPC_ID)
       ELSE LET d == RpcDispatch
            IN  IF ~d.ok THEN RefreshReturns(d, JSON_RPC_ID + 1)
                ELSE /\ refresh' = [pc |-> "balance", target |-> d.val]
                     /\ JSON_RPC_ID' = JSON_RPC_ID + 1
                     /\ reply' = None
                     /\ UNCHANGED <<relayer_state, now, runs, derive>>

AfterRefreshBalance(resp) ==
    /\ refresh.pc = "balance"
    /\ LET balance == quantity_result(resp)
       IN  /\ last_known_gas' = IF balance.ok THEN balance.val ELSE last_known_gas
           /\ reply' = Reply("refresh_gas_balance", 0,
                             IF balance.ok THEN Ok(<<balance.val>>) ELSE balance)
           /\ refresh' = IdleRefresh
           /\ UNCHANGED <<admins, config, assets, rate_limit, rate_state, logs,
                          next_log_id, JSON_RPC_ID, now, runs, derive>>

(***************************************************************************)
(* The environment: principals, requests, and what the backends answer.    *)
(***************************************************************************)
Admin == "admin"
Stranger == "stranger"
Jpyc == "jpyc"

Bytes(tag, len) == [tag |-> tag, len |-> len]
TypedAddress(tag) == [prefixed |-> TRUE, chars |-> 42, hex |-> TRUE, tag |-> tag]
Network(prefix, rest) == [prefix |-> prefix, rest |-> rest]
GoodTarget == [canister |-> "evm_rpc", network |-> Network("", "polygon-amoy")]
BadTarget == [canister |-> "evm_rpc", network |-> Network("", "solana")]

\* a well-formed authorization of one token by `sender`, valid until `before`
Request(sender, before) ==
    [asset |-> Jpyc, from |-> Bytes(sender, 20), to |-> Bytes("payee", 20),
     value |-> JPYC_UNIT_MULTIPLIER, valid_after |-> NatIn(0),
     valid_before |-> NatIn(before), nonce |-> Bytes("nonce", 32), sig_v |-> 27,
     sig_r |-> Bytes("r", 32), sig_s |-> Bytes("s", 32)]

Hex(chars) == RespResult(JString(<<"0", "x">> \o chars))
Block(chars) == RespResult(JObject(Some(<<"0", "x">> \o chars)))

\* results of the authorizationState eth_call, after "0x": false, true, the
\* empty result, a non-zero word ending in a zero byte, a byte with only its
\* high digit set, a single digit
ReplayResults ==
    {<<"0", "0">>, <<"0", "1">>, << >>, <<"0", "1", "0", "0">>, <<"1", "0">>, <<"1">>}
AuthorizationStateResponses == {Hex(chars) : chars \in ReplayResults} \cup {RespReject}
SimulateResponses == {Hex(<< >>), RespError}
EstimateGasResponses == {Hex(<<"f", "f">>), RespError}
BaseFeeResponses == {Block(<<"0", "a">>), RespResult(JOther)}
PriorityFeeResponses == {Hex(<<"0", "2">>), RespReject}
BalanceResponses == {Hex(<<"6", "4">>), Hex(<< >>), RespReject}
NonceResponses == {Hex(<<"0", "1">>), RespReject}
\* string results of eth_sendRawTransaction: a 32-byte transaction hash and
\* a one-byte hex string
SendResults == {<<"0", "x">> \o [i \in 1..64 |-> "a"], <<"0", "x", "a", "b">>}
SendResponses ==
    {RespResult(JString(h)) : h \in SendResults} \cup {RespResult(JOther), RespError}

\* a 64-byte signature whose recovery with id 1 gives the relayer address
SignerOk ==
    [kind |-> "ok", message |-> << >>,
     signature |-> [i \in 1..64 |-> IF i \in {1, 33} THEN 0 ELSE 7],
     valid |-> TRUE, rec |-> <<"other", "relayer", "none", "none">>]
SignerReject ==
    [kind |-> "reject", message |-> <<"signing failed">>, signature |-> << >>,
     valid |-> FALSE, rec |-> <<"none", "none", "none", "none">>]
SignResponses == {SignerOk, SignerReject}

\* the configuration and the registry of a relayer in service
ServiceConfig ==
    [InitConfig(DefaultInitArgs) EXCEPT
        !.rpc_target = Some(GoodTarget),
        !.evm_addr = Some(normalize_evm_address(TypedAddress("relayer")).val),
        !.chain_id = Some(NatIn(80002)),
        !.threshold_wei = 1,
        !.paused = FALSE]
ServiceAssets ==
    MapPut(<< >>, Jpyc,
           [evm_address |-> normalize_evm_address(TypedAddress("token")).val,
            status |-> "Active", fee_bps |-> 0, version |-> 1])

\* the state of a deployed and configured relayer: init by Admin at time t,
\* then set_rpc_target, set_relayer_address, set_chain_id, set_threshold,
\* add_asset and pause(false)
Configured(t, per_min, daily_cap) ==
    /\ admins = {Admin}
    /\ config = ServiceConfig
    /\ assets = ServiceAssets
    /\ rate_limit = [per_addr_per_min |-> per_min, daily_cap_token |-> daily_cap]
    /\ rate_state = EmptyRateState
    /\ logs = << >>
    /\ next_log_id = 1
    /\ last_known_gas = 0
    /\ JSON_RPC_ID = 1
    /\ now = t
    /\ runs = [r \in 1..MaxRuns |-> IdleRun]
    /\ refresh = IdleRefresh
    /\ derive = IdleDerive
    /\ reply = None

(***************************************************************************)
(* The relayer in service: concurrent submissions, the pause switch, a     *)
(* change of RPC target and refresh_gas_balance, interleaved at every      *)
(* await.                                                                  *)
(***************************************************************************)
HasFreeSlot == \E r \in 1..MaxRuns : runs[r].pc = "idle"
FreeSlot ==
    CHOOSE r \in 1..MaxRuns :
        runs[r].pc = "idle" /\ \A q \in 1..(r - 1) : runs[q].pc # "idle"

Init == Configured(1000, 10, 10000)

Submit ==
    /\ HasFreeSlot
    /\ Len(logs) < MaxLogs
    /\ submit_authorization(FreeSlot, Request("alice", 2000))

Continue(r) ==
    \/ \E resp \in AuthorizationStateResponses : AfterAuthorizationState(r, resp)
    \/ \E resp \in SimulateResponses : AfterSimulate(r, resp)
    \/ \E resp \in EstimateGasResponses : AfterEstimateGas(r, resp)
    \/ \E resp \in BaseFeeResponses : AfterBaseFee(r, resp)
    \/ \E resp \in PriorityFeeResponses : AfterPriorityFee(r, resp)
    \/ \E resp \in BalanceResponses : AfterBalance(r, resp)
    \/ \E resp \in NonceResponses : AfterNonce(r, resp)
    \/ \E sresp \in SignResponses : AfterSign(r, sresp)
    \/ \E resp \in SendResponses : AfterSend(r, resp)

Refresh ==
    \/ JSON_RPC_ID < MaxRefreshId /\ refresh_gas_balance
    \/ \E resp \in BalanceResponses : AfterRefreshBalance(resp)

Next ==
    \/ Submit
    \/ \E r \in 1..MaxRuns : Continue(r)
    \/ \E flag \in BOOLEAN : pause(Admin, flag)
    \/ \E target \in {GoodTarget, BadTarget} :
            set_rpc_target(Admin, target.canister, target.network)
    \/ Refresh

Spec == Init /\ [][Next]_vars

(***************************************************************************)
(* The same service when every call the canister awaits is answered:       *)
(* weak fairness of each run's continuation.                               *)
(***************************************************************************)
FairNext ==
    \/ Submit
    \/ \E r \in 1..MaxRuns : Continue(r)
    \/ \E flag \in BOOLEAN : pause(Admin, flag)

FairSpec ==
    /\ Init
    /\ [][FairNext]_vars
    /\ \A r \in 1..MaxRuns : WF_vars(Continue(r))

(***************************************************************************)
(* Admission: a freshly installed canister (init leaves it paused and      *)
(* unconfigured), its admin surface, and requests of every shape.          *)
(***************************************************************************)
AdmissionInit == init(DefaultInitArgs, Admin, AdmissionNow)

WellFormed == Request("alice", AdmissionNow + 1000)

AdmissionRequests ==
    {WellFormed,
     [WellFormed EXCEPT !.nonce = Bytes("nonce", 31)],
     [WellFormed EXCEPT !.sig_r = Bytes("r", 31)],
     [WellFormed EXCEPT !.sig_s = Bytes("s", 33)],
     [WellFormed EXCEPT !.from = Bytes("alice", 19)],
     [WellFormed EXCEPT !.to = Bytes("payee", 21)],
     [WellFormed EXCEPT !.asset = "unknown"],
     [WellFormed EXCEPT !.valid_before = NatIn(AdmissionNow - 1)],
     [WellFormed EXCEPT !.valid_before = NatIn(AdmissionNow)],
     [WellFormed EXCEPT !.valid_before = NatIn(AdmissionNow + 1)],
     [WellFormed EXCEPT !.valid_before = NatHuge]}

AdmissionSubmit ==
    /\ \A r \in 1..MaxRuns : runs[r].pc = "idle"
    /\ Len(logs) < MaxAdmitted
    /\ \E req \in AdmissionRequests : submit_authorization(FreeSlot, req)

AdmissionContinue(r) ==
    \/ \E resp \in AuthorizationStateResponses : AfterAuthorizationState(r, resp)
    \/ AfterSimulate(r, RespError)

AdmissionAdmin ==
    \/ set_rpc_target(Admin, GoodTarget.canister, GoodTarget.network)
    \/ set_relayer_address(Admin, TypedAddress("relayer"))
    \/ set_chain_id(Admin, NatIn(80002))
    \/ set_threshold(Admin, 1)
    \/ set_ecdsa_derivation_path(Admin, <<Bytes("path", 1)>>)
    \/ add_asset(Admin, Jpyc, TypedAddress("token"), NatIn(0))
    \/ deprecate_asset(Admin, Jpyc)
    \/ disable_asset(Admin, Jpyc)
    \/ \E caller \in {Admin, Stranger}, flag \in BOOLEAN : pause(caller, flag)

AdmissionNext ==
    \/ AdmissionSubmit
    \/ \E r \in 1..MaxRuns : AdmissionContinue(r)
    \/ AdmissionAdmin

AdmissionSpec == AdmissionInit /\ [][AdmissionNext]_vars

(***************************************************************************)
(* Rate limiting: two senders submitting around a minute boundary and a    *)
(* day boundary, with per_addr_per_min = PerAddrPerMin and a daily cap of  *)
(* DailyCapToken tokens.                                                   *)
(***************************************************************************)
RateTimes == {86339, 86340, 86399, 86400}
RateSenders == {"alice", "bob"}

RateInit == Configured(86339, PerAddrPerMin, DailyCapToken)

RateSubmit ==
    /\ HasFreeSlot
    /\ Len(logs) < MaxRateLogs
    /\ \E sender \in RateSenders :
          /\ EntryOrDefault(rate_state.daily_counter,
                            to_hex_address(Bytes(sender, 20)).val).hits < MaxDailyHits
          /\ submit_authorization(FreeSlot, Request(sender, 90000))

RateNext ==
    \/ RateSubmit
    \/ \E r \in 1..MaxRuns : AfterAuthorizationState(r, RespReject)
    \/ \E t \in RateTimes : Tick(t)

RateSpec == RateInit /\ [][RateNext]_vars

(***************************************************************************)
(* The two rate rules side by side: one sender submitting amounts around   *)
(* the daily cap, on relayers initialised with each rule enabled or        *)
(* disabled (a bound of 0).                                                *)
(***************************************************************************)
\* the `from` key of the sender's counters and log entries
SenderHex(sender) == to_hex_address(Bytes(sender, 20)).val

\* one wei, one token, one token and one wei, two tokens
CapValues == {<<0, 0, 1>>, <<1, 0, 0>>, <<1, 0, 1>>, <<2, 0, 0>>}

\* a well-formed authorization of `value` by `sender`
RequestOf(sender, value) == [Request(sender, 90000) EXCEPT !.value = value]

CapInit ==
    \E per_min \in {0, PerAddrPerMin} : \E daily_cap \in {0, DailyCapToken} :
        Configured(86339, per_min, daily_cap)

CapSubmit ==
    /\ HasFreeSlot
    /\ Len(logs) < MaxCapLogs
    /\ EntryOrDefault(rate_state.daily_counter, SenderHex("alice")).hits < MaxCapHits
    /\ \E value \in CapValues : submit_authorization(FreeSlot, RequestOf("alice", value))

CapNext ==
    \/ CapSubmit
    \/ \E r \in 1..MaxRuns : AfterAuthorizationState(r, RespReject)
    \/ \E t \in RateTimes : Tick(t)

CapSpec == CapInit /\ [][CapNext]_vars

(***************************************************************************)
(* The gas-balance gate: runs that reach eth_getBalance while an admin     *)
(* moves threshold_wei, with balances below, at and above the threshold.   *)
(***************************************************************************)
GasThresholds == {1, 100}

\* results of eth_getBalance, after "0x": 0 (the empty result), 1, 99, 100
GasBalanceResults == {<< >>, <<"1">>, <<"6", "3">>, <<"6", "4">>}

GasContinue(r) ==
    \/ AfterAuthorizationState(r, Hex(<<"0", "0">>))
    \/ AfterSimulate(r, Hex(<< >>))
    \/ AfterEstimateGas(r, Hex(<<"f", "f">>))
    \/ AfterBaseFee(r, Block(<<"0", "a">>))
    \/ AfterPriorityFee(r, Hex(<<"0", "2">>))
    \/ \E chars \in GasBalanceResults : AfterBalance(r, Hex(chars))
    \/ AfterBalance(r, RespReject)
    \/ \E resp \in NonceResponses : AfterNonce(r, resp)
    \/ \E sresp \in SignResponses : AfterSign(r, sresp)
    \/ \E resp \in SendResponses : AfterSend(r, resp)

GasNext ==
    \/ Submit
    \/ \E r \in 1..MaxRuns : GasContinue(r)
    \/ \E value \in GasThresholds : set_threshold(Admin, value)

GasSpec == Init /\ [][GasNext]_vars

(***************************************************************************)
(* Reconfiguration under load: one run at a time whose calls are all       *)
(* answered, while an admin replaces the RPC target, the threshold, the    *)
(* chain id, the relayer address (typed or derived), the derivation path   *)
(* and the asset between any two of its awaits.                            *)
(***************************************************************************)
\* at most this many settings differ from the relayer in service
MaxConfigChanges == 2

OtherTarget == [canister |-> "evm_rpc_2", network |-> Network("", "polygon-mainnet")]

\* answers of ecdsa_public_key: a key whose address is 0xderived, a reject,
\* bytes that are no SEC1 key
PublicKeyOk ==
    [kind |-> "ok", code |-> "", message |-> "", valid |-> TRUE, address |-> "derived"]
PublicKeyReject ==
    [kind |-> "reject", code |-> "CanisterError", message |-> "no key", valid |-> FALSE,
     address |-> ""]
PublicKeyInvalid ==
    [kind |-> "ok", code |-> "", message |-> "bad point", valid |-> FALSE,
     address |-> ""]
PublicKeyResponses == {PublicKeyOk, PublicKeyReject, PublicKeyInvalid}

TransactionHash == <<"0", "x">> \o [i \in 1..64 |-> "a"]

\* every call of the pipeline answered with a success
AnsweredContinue(r) ==
    \/ AfterAuthorizationState(r, Hex(<<"0", "0">>))
    \/ AfterSimulate(r, Hex(<< >>))
    \/ AfterEstimateGas(r, Hex(<<"f", "f">>))
    \/ AfterBaseFee(r, Block(<<"0", "a">>))
    \/ AfterPriorityFee(r, Hex(<<"0", "2">>))
    \/ AfterBalance(r, Hex(<<"6", "4">>))
    \/ AfterNonce(r, Hex(<<"0", "1">>))
    \/ AfterSign(r, SignerOk)
    \/ AfterSend(r, RespResult(JString(TransactionHash)))

ConfigChanges ==
    Cardinality({f \in {"rpc_target", "threshold_wei", "chain_id", "evm_addr",
                        "ecdsa_derivation_path"} : config[f] # ServiceConfig[f]})
        + (IF assets[Jpyc].evm_address # ServiceAssets[Jpyc].evm_address THEN 1 ELSE 0)
        + (IF assets[Jpyc].status # "Active" THEN 1 ELSE 0)

SnapshotSubmit ==
    /\ \A r \in 1..MaxRuns : runs[r].pc = "idle"
    /\ Len(logs) < MaxLogs
    /\ submit_authorization(1, Request("alice", 2000))

\* the calls that replace a setting, made by caller
AdminOps(caller) ==
    \/ set_rpc_target(caller, OtherTarget.canister, OtherTarget.network)
    \/ set_threshold(caller, 1000)
    \/ set_chain_id(caller, NatIn(137))
    \/ set_relayer_address(caller, TypedAddress("relayer2"))
    \/ derive_relayer_address(caller)
    \/ set_ecdsa_derivation_path(caller, <<Bytes("path", 1)>>)
    \/ add_asset(caller, Jpyc, TypedAddress("token2"), NatIn(0))
    \/ deprecate_asset(caller, Jpyc)
    \/ disable_asset(caller, Jpyc)

SnapshotAdmin == ConfigChanges < MaxConfigChanges /\ AdminOps(Admin)

SnapshotNext ==
    \/ SnapshotSubmit
    \/ AnsweredContinue(1)
    \/ SnapshotAdmin
    \/ \E pk \in PublicKeyResponses : AfterPublicKey(pk)

SnapshotSpec == Init /\ [][SnapshotNext]_vars

(***************************************************************************)
(* Two submissions of one authorization against a node that accepts the    *)
(* first broadcast of it and answers every later one with a JSON-RPC       *)
(* error.  authorizationState reads true only once a broadcast may have    *)
(* been mined: one was accepted, or one is on its way to the node.         *)
(***************************************************************************)
BroadcastAccepted == \E i \in 1..Len(logs) : logs[i].status = "Broadcasted"

MayBeMined(r) ==
    BroadcastAccepted \/ \E q \in 1..MaxRuns : q # r /\ runs[q].pc = "send"

ChainContinue(r) ==
    \/ AfterAuthorizationState(r, Hex(<<"0", "0">>))
    \/ MayBeMined(r) /\ AfterAuthorizationState(r, Hex(<<"0", "1">>))
    \/ AfterSimulate(r, Hex(<< >>))
    \/ AfterEstimateGas(r, Hex(<<"f", "f">>))
    \/ AfterBaseFee(r, Block(<<"0", "a">>))
    \/ AfterPriorityFee(r, Hex(<<"0", "2">>))
    \/ AfterBalance(r, Hex(<<"6", "4">>))
    \/ AfterNonce(r, Hex(<<"0", "1">>))
    \/ AfterSign(r, SignerOk)
    \/ ~BroadcastAccepted /\ AfterSend(r, RespResult(JString(TransactionHash)))
    \/ BroadcastAccepted /\ AfterSend(r, RespError)

ChainNext ==
    \/ Submit
    \/ \E r \in 1..MaxRuns : ChainContinue(r)

ChainSpec == Init /\ [][ChainNext]_vars

(***************************************************************************)
(* Reading the log: up to MaxQueryLogs entries, settled either way or      *)
(* still Accepted, paged with every cursor and limit around them.          *)
(***************************************************************************)
MaxQueryLogs == 3

Cursors == {None} \cup {Some(n) : n \in 0..(MaxQueryLogs + 1)}
Limits == 0..(MaxQueryLogs + 1)

QuerySubmit ==
    /\ \A r \in 1..MaxRuns : runs[r].pc = "idle"
    /\ Len(logs) < MaxQueryLogs
    /\ submit_authorization(1, Request("alice", 2000))

QueryNext ==
    \/ QuerySubmit
    \/ AnsweredContinue(1)
    \/ AfterAuthorizationState(1, RespReject)
    \/ \E start_after \in Cursors, limit \in Limits : logs_call(start_after, limit)

QuerySpec == Init /\ [][QueryNext]_vars

(***************************************************************************)
(* The admin surface called by an admin and by a principal that is not     *)
(* one, with well-formed and with malformed arguments, while a run is in   *)
(* flight.                                                                 *)
(***************************************************************************)
\* an address of 40 characters, a fee above u16::MAX
ShortAddress == [TypedAddress("short") EXCEPT !.chars = 40]
LargeFee == NatIn(65536)

\* calls whose arguments an admin would see refused
MalformedOps(caller) ==
    \/ set_relayer_address(caller, ShortAddress)
    \/ add_asset(caller, Jpyc, ShortAddress, NatIn(0))
    \/ add_asset(caller, Jpyc, TypedAddress("token2"), LargeFee)

AccessNext ==
    \/ SnapshotSubmit
    \/ AnsweredContinue(1)
    \/ \E caller \in {Admin, Stranger} :
           \/ MalformedOps(caller)
           \/ \E flag \in BOOLEAN : pause(caller, flag)
    \/ AdminOps(Stranger)
    \/ derive_relayer_address(Admin)
    \/ \E pk \in PublicKeyResponses : AfterPublicKey(pk)

AccessSpec == Init /\ [][AccessNext]_vars

(***************************************************************************)
(* The relayer across upgrades: with the snapshot its own pre_upgrade      *)
(* wrote, and over stable memory left by another build, holding no         *)
(* snapshot or bytes that do not decode.                                   *)
(***************************************************************************)
NoSnapshot == stable_save(None)
Undecodable == [decodable |-> FALSE, opt |-> << >>]

UpgradeContinue(r) ==
    \/ AnsweredContinue(r)
    \/ AfterAuthorizationState(r, RespReject)

UpgradeNext ==
    \/ Submit
    \/ \E r \in 1..MaxRuns : UpgradeContinue(r)
    \/ Refresh
    \/ post_upgrade(pre_upgrade)
    \/ \E memory \in {NoSnapshot, Undecodable} : post_upgrade(memory)

UpgradeSpec == Init /\ [][UpgradeNext]_vars

(***************************************************************************)
(* The order of the admission checks: requests with any combination of     *)
(* defects, on a relayer that is paused or not, whose asset is Active,     *)
(* Deprecated or Disabled, and whose rate limits are reached or not.       *)
(***************************************************************************)
MaxOrderLogs == 3

OrderRequests ==
    {[WellFormed EXCEPT !.from = Bytes("alice", from_len),
                        !.to = Bytes("payee", to_len),
                        !.asset = asset,
                        !.valid_before = valid_before] :
        from_len \in {20, 19}, to_len \in {20, 21}, asset \in {Jpyc, "unknown"},
        valid_before \in {NatIn(AdmissionNow + 1000), NatIn(AdmissionNow), NatHuge}}

OrderInit == Configured(AdmissionNow, PerAddrPerMin, DailyCapToken)

OrderSubmit ==
    /\ \A r \in 1..MaxRuns : runs[r].pc = "idle"
    /\ Len(logs) < MaxOrderLogs
    /\ \E req \in OrderRequests : submit_authorization(1, req)

OrderAdmin ==
    \/ \E flag \in BOOLEAN : pause(Admin, flag)
    \/ add_asset(Admin, Jpyc, TypedAddress("token"), NatIn(0))
    \/ deprecate_asset(Admin, Jpyc)
    \/ disable_asset(Admin, Jpyc)

OrderNext ==
    \/ OrderSubmit
    \/ AfterAuthorizationState(1, RespReject)
    \/ OrderAdmin

OrderSpec == OrderInit /\ [][OrderNext]_vars

(***************************************************************************)
(* What a submission writes: two senders whose runs interleave, each       *)
(* ending at its replay check, at the gas gate, at the broadcast or with   *)
(* a transaction hash, on a relayer an admin pauses and unpauses.          *)
(***************************************************************************)
FrameContinue(r) ==
    \/ AnsweredContinue(r)
    \/ AfterAuthorizationState(r, RespReject)
    \/ AfterBalance(r, Hex(<< >>))
    \/ AfterSend(r, RespError)

FrameSubmit ==
    /\ HasFreeSlot
    /\ Len(logs) < MaxLogs
    /\ \E sender \in RateSenders : submit_authorization(FreeSlot, Request(sender, 2000))

FrameNext ==
    \/ FrameSubmit
    \/ \E r \in 1..MaxRuns : FrameContinue(r)
    \/ \E flag \in BOOLEAN : pause(Admin, flag)

FrameSpec == Init /\ [][FrameNext]_vars

(***************************************************************************)
(* One run at a time whose eth_estimateGas answer ranges over estimates    *)
(* around the 50000 minimum and around multiples of 5.                     *)
(***************************************************************************)
\* the estimates a node answers eth_estimateGas with
GasEstimates ==
    {0, 255, 21000, 49999, 50000, 50001, 50002, 50003, 50004, 50005,
     120000, 120001, 999999, 1000000, 16777215}

RECURSIVE QuantityDigits(_)
\* the hex digits of a JSON-RPC quantity, most significant first
QuantityDigits(v) ==
    IF v < 16 THEN <<HexChars[v + 1]>>
    ELSE QuantityDigits(v \div 16) \o <<HexChars[(v % 16) + 1]>>

\* the eth_estimateGas answer carrying estimate v
Quantity(v) == Hex(QuantityDigits(v))

EstimateContinue(r) ==
    \/ AfterAuthorizationState(r, Hex(<<"0", "0">>))
    \/ AfterSimulate(r, Hex(<< >>))
    \/ \E v \in GasEstimates : AfterEstimateGas(r, Quantity(v))
    \/ AfterBaseFee(r, Block(<<"0", "a">>))
    \/ AfterPriorityFee(r, Hex(<<"0", "2">>))
    \/ AfterBalance(r, Hex(<<"6", "4">>))
    \/ AfterNonce(r, Hex(<<"0", "1">>))
    \/ AfterSign(r, SignerOk)
    \/ AfterSend(r, RespResult(JString(TransactionHash)))

EstimateNext ==
    \/ SnapshotSubmit
    \/ \E r \in 1..MaxRuns : EstimateContinue(r)

EstimateSpec == Init /\ [][EstimateNext]_vars

(***************************************************************************)
(* Relayers initialised with every pair of fee multipliers, one run at a   *)
(* time, the node answering with base fees and priority fees around zero.  *)
(***************************************************************************)
\* an f64 multiplier of +infinity
Infinite == [kind |-> "infinite", num |-> 0, den |-> 1]

\* the non-negative multipliers init is called with
FeeMultipliers ==
    {Rational(0, 1), Rational(1, 2), Rational(1, 1), Rational(6, 5),
     Rational(2, 1), Rational(9, 4), Infinite}

BaseFees == {0, 1, 7, 10}
PriorityFees == {0, 1, 2, 7}

\* init with the two multipliers, then the settings of a relayer in service
FeeConfig(priority_multiplier, max_fee_multiplier) ==
    [InitConfig([DefaultInitArgs EXCEPT
                     !.max_fee_multiplier = Some(max_fee_multiplier),
                     !.priority_multiplier = Some(priority_multiplier)])
        EXCEPT !.rpc_target = ServiceConfig.rpc_target,
               !.evm_addr = ServiceConfig.evm_addr,
               !.chain_id = ServiceConfig.chain_id,
               !.threshold_wei = ServiceConfig.threshold_wei,
               !.paused = FALSE]

FeeInit ==
    /\ admins = {Admin}
    /\ \E pm \in FeeMultipliers, mm \in FeeMultipliers : config = FeeConfig(pm, mm)
    /\ assets = ServiceAssets
    /\ rate_limit = [per_addr_per_min |-> 10, daily_cap_token |-> 10000]
    /\ rate_state = EmptyRateState
    /\ logs = << >>
    /\ next_log_id = 1
    /\ last_known_gas = 0
    /\ JSON_RPC_ID = 1
    /\ now = 1000
    /\ runs = [r \in 1..MaxRuns |-> IdleRun]
    /\ refresh = IdleRefresh
    /\ derive = IdleDerive
    /\ reply = None

FeeContinue(r) ==
    \/ AfterAuthorizationState(r, Hex(<<"0", "0">>))
    \/ AfterSimulate(r, Hex(<< >>))
    \/ AfterEstimateGas(r, Hex(<<"f", "f">>))
    \/ \E b \in BaseFees : AfterBaseFee(r, Block(QuantityDigits(b)))
    \/ \E p \in PriorityFees : AfterPriorityFee(r, Quantity(p))
    \/ AfterBalance(r, Hex(<<"6", "4">>))
    \/ AfterNonce(r, Hex(<<"0", "1">>))
    \/ AfterSign(r, SignerOk)
    \/ AfterSend(r, RespResult(JString(TransactionHash)))

FeeNext ==
    \/ SnapshotSubmit
    \/ \E r \in 1..MaxRuns : FeeContinue(r)

FeeSpec == FeeInit /\ [][FeeNext]_vars

(***************************************************************************)
(* One run at a time whose account nonce, the second integer of the        *)
(* envelope, ranges over values around 0x80 and around the powers of 256.  *)
(***************************************************************************)
EncodedNats ==
    {0, 1, 2, 55, 56, 126, 127, 128, 129, 183, 184, 192, 247, 248, 255, 256, 257,
     1000, 4095, 4096, 65535, 65536, 65537, 1000000, 16777215, 16777216,
     16777217, 2147483647}

EncodeContinue(r) ==
    \/ AfterAuthorizationState(r, Hex(<<"0", "0">>))
    \/ AfterSimulate(r, Hex(<< >>))
    \/ AfterEstimateGas(r, Hex(<<"f", "f">>))
    \/ AfterBaseFee(r, Block(<<"0", "a">>))
    \/ AfterPriorityFee(r, Hex(<<"0", "2">>))
    \/ AfterBalance(r, Hex(<<"6", "4">>))
    \/ \E n \in EncodedNats : AfterNonce(r, Quantity(n))
    \/ AfterSign(r, SignerOk)
    \/ AfterSend(r, RespResult(JString(TransactionHash)))

EncodeNext ==
    \/ SnapshotSubmit
    \/ \E r \in 1..MaxRuns : EncodeContinue(r)

EncodeSpec == Init /\ [][EncodeNext]_vars

(***************************************************************************)
(* One run at a time and a signer that answers with every width and        *)
(* content: 65 bytes with a recovery byte, 64 bytes recovering to the      *)
(* relayer address under some, several or no recovery id, words with       *)
(* leading zero bytes and the zero word, other widths, a rejection.        *)
(***************************************************************************)
\* a 32-byte word: lead zero bytes, then bytes of value fill
Word(lead, fill) == [i \in 1..32 |-> IF i <= lead THEN 0 ELSE fill]

NoRecovery == <<"none", "none", "none", "none">>

\* 65 bytes: r, s and the recovery byte y
Signed65(r, s, y) ==
    [kind |-> "ok", message |-> << >>, signature |-> r \o s \o <<y>>,
     valid |-> TRUE, rec |-> NoRecovery]

\* 64 bytes: r, s; rec[k + 1] is the address recovered with recovery id k
Signed64(r, s, rec) ==
    [kind |-> "ok", message |-> << >>, signature |-> r \o s,
     valid |-> TRUE, rec |-> rec]

\* 64 bytes that are not a signature (k256 refuses r or s)
Unparsable64 ==
    [kind |-> "ok", message |-> << >>, signature |-> Word(32, 0) \o Word(0, 9),
     valid |-> FALSE, rec |-> <<"relayer", "none", "none", "none">>]

\* bytes of another width
OfWidth(n) ==
    [kind |-> "ok", message |-> << >>, signature |-> [i \in 1..n |-> 7],
     valid |-> FALSE, rec |-> NoRecovery]

SignerAnswers ==
    {Signed65(Word(0, 1), Word(0, 2), 0),
     Signed65(Word(0, 3), Word(0, 4), 1),
     Signed65(Word(0, 5), Word(0, 6), 27),
     Signed65(Word(1, 200), Word(0, 7), 0),
     Signed65(Word(0, 8), Word(31, 127), 1),
     Signed65(Word(31, 128), Word(5, 9), 0),
     Signed65(Word(32, 0), Word(0, 10), 1),
     Signed65(Word(0, 11), Word(32, 0), 0),
     Signed64(Word(0, 12), Word(0, 13), <<"relayer", "none", "none", "none">>),
     Signed64(Word(0, 14), Word(0, 15), <<"other", "relayer", "none", "none">>),
     Signed64(Word(0, 16), Word(0, 17), <<"other", "none", "relayer", "none">>),
     Signed64(Word(0, 18), Word(0, 19), <<"none", "other", "none", "relayer">>),
     Signed64(Word(0, 20), Word(0, 21), <<"other", "relayer", "relayer", "none">>),
     Signed64(Word(0, 22), Word(0, 23), <<"relayer", "none", "none", "relayer">>),
     Signed64(Word(3, 24), Word(30, 25), <<"none", "none", "relayer", "relayer">>),
     Signed64(Word(0, 26), Word(0, 27), <<"other", "none", "other", "none">>),
     Signed64(Word(0, 28), Word(0, 29), NoRecovery),
     Unparsable64, OfWidth(0), OfWidth(63), OfWidth(66), SignerReject}

SignContinue(r) ==
    \/ AfterAuthorizationState(r, Hex(<<"0", "0">>))
    \/ AfterSimulate(r, Hex(<< >>))
    \/ AfterEstimateGas(r, Hex(<<"f", "f">>))
    \/ AfterBaseFee(r, Block(<<"0", "a">>))
    \/ AfterPriorityFee(r, Hex(<<"0", "2">>))
    \/ AfterBalance(r, Hex(<<"6", "4">>))
    \/ AfterNonce(r, Hex(<<"0", "1">>))
    \/ \E sresp \in SignerAnswers : AfterSign(r, sresp)
    \/ AfterSend(r, RespResult(JString(TransactionHash)))

SignNext ==
    \/ SnapshotSubmit
    \/ \E r \in 1..MaxRuns : SignContinue(r)

SignSpec == Init /\ [][SignNext]_vars

(***************************************************************************)
(* The daily cap over a day boundary: two senders submitting amounts       *)
(* around the cap while earlier runs are still in flight.                  *)
(***************************************************************************)
DayInit == Configured(86399, 0, DailyCapToken)

\* one token, one token and one wei
DayValues == {<<1, 0, 0>>, <<1, 0, 1>>}

DaySubmit ==
    /\ HasFreeSlot
    /\ Len(logs) < MaxCapLogs
    /\ \E sender \in RateSenders :
          /\ EntryOrDefault(rate_state.daily_counter, SenderHex(sender)).hits < MaxCapHits
          /\ \E value \in DayValues :
                 submit_authorization(FreeSlot, RequestOf(sender, value))

DayNext ==
    \/ DaySubmit
    \/ \E r \in 1..MaxRuns : AfterAuthorizationState(r, RespReject)
    \/ Tick(86400)

DaySpec == DayInit /\ [][DayNext]_vars

(***************************************************************************)
(* A relayer unpaused before its configuration is complete: after init and *)
(* add_asset, any of rpc_target, the relayer address and chain_id is still *)
(* unset when submissions arrive, and the admin sets them one by one.      *)
(***************************************************************************)
UnsetInit ==
    /\ admins = {Admin}
    /\ \E target \in {None, ServiceConfig.rpc_target},
          address \in {None, ServiceConfig.evm_addr},
          chain \in {None, ServiceConfig.chain_id} :
           config = [ServiceConfig EXCEPT !.rpc_target = target,
                                          !.evm_addr = address,
                                          !.chain_id = chain]
    /\ assets = ServiceAssets
    /\ rate_limit = [per_addr_per_min |-> 10, daily_cap_token |-> 10000]
    /\ rate_state = EmptyRateState
    /\ logs = << >>
    /\ next_log_id = 1
    /\ last_known_gas = 0
    /\ JSON_RPC_ID = 1
    /\ now = 1000
    /\ runs = [r \in 1..MaxRuns |-> IdleRun]
    /\ refresh = IdleRefresh
    /\ derive = IdleDerive
    /\ reply = None

UnsetSubmit ==
    /\ \A r \in 1..MaxRuns : runs[r].pc = "idle"
    /\ Len(logs) < MaxLogs
    /\ \E sender \in RateSenders : submit_authorization(1, Request(sender, 2000))

\* the admin completes the configuration
UnsetAdmin ==
    \/ IsNone(config.rpc_target)
           /\ set_rpc_target(Admin, GoodTarget.canister, GoodTarget.network)
    \/ IsNone(config.evm_addr) /\ set_relayer_address(Admin, TypedAddress("relayer"))
    \/ IsNone(config.chain_id) /\ set_chain_id(Admin, NatIn(80002))

UnsetNext ==
    \/ UnsetSubmit
    \/ UnsetAdmin
    \/ \E r \in 1..MaxRuns : AfterAuthorizationState(r, RespReject)

UnsetSpec == UnsetInit /\ [][UnsetNext]_vars

(***************************************************************************)
(* The asset registry: an admin adds, deprecates and disables the          *)
(* registered asset and an unregistered one while submissions arrive.      *)
(***************************************************************************)
Unregistered == "unknown"

AssetSubmit ==
    /\ \A r \in 1..MaxRuns : runs[r].pc = "idle"
    /\ Len(logs) < MaxOrderLogs
    /\ \E sender \in RateSenders : submit_authorization(1, Request(sender, 2000))

AssetAdmin ==
    \/ add_asset(Admin, Jpyc, TypedAddress("token"), NatIn(0))
    \/ \E asset \in {Jpyc, Unregistered} : deprecate_asset(Admin, asset)
    \/ \E asset \in {Jpyc, Unregistered} : disable_asset(Admin, asset)

AssetNext ==
    \/ AssetSubmit
    \/ AfterAuthorizationState(1, RespReject)
    \/ AssetAdmin

AssetSpec == Init /\ [][AssetNext]_vars

(***************************************************************************)
(* A fresh deployment: init with or without arguments, then submissions    *)
(* arrive while the deployer, a listed admin and a stranger use the pause  *)
(* switch and the deployer registers the asset.  The RPC target is never   *)
(* set, so that an admitted submission ends at the configuration checks.   *)
(***************************************************************************)
Deployer == "deployer"

\* Option<InitArgs>: nothing, or the defaults with some fields replaced
DeployArgs ==
    {None} \cup
    {Some([DefaultInitArgs EXCEPT !.admins = listed, !.chain_id = chain,
                                  !.max_fee_multiplier = multiplier,
                                  !.rate_limit_per_min = per_min,
                                  !.daily_cap_token = daily_cap]) :
        listed \in {{}, {Admin}, {Admin, Deployer}},
        chain \in {None, Some(NatIn(80002))},
        multiplier \in {None, Some(Rational(1, 1))},
        per_min \in {None, Some(0)},
        daily_cap \in {None, Some(0)}}

\* well-formed requests, a sender of 19 bytes, an unregistered asset
DeployRequests ==
    {Request(sender, 2000) : sender \in RateSenders}
        \cup {[Request("alice", 2000) EXCEPT !.from = Bytes("alice", 19)],
              [Request("alice", 2000) EXCEPT !.asset = Unregistered]}

DeployInit ==
    \E args \in DeployArgs :
        init(IF IsSome(args) THEN Unwrap(args) ELSE DefaultInitArgs, Deployer, 1000)

DeploySubmit ==
    /\ \A r \in 1..MaxRuns : runs[r].pc = "idle"
    /\ Len(logs) < MaxOrderLogs
    /\ \E req \in DeployRequests : submit_authorization(1, req)

DeployAdmin ==
    \/ \E caller \in {Deployer, Admin, Stranger}, flag \in BOOLEAN : pause(caller, flag)
    \/ Jpyc \notin DOMAIN assets
           /\ add_asset(Deployer, Jpyc, TypedAddress("token"), NatIn(0))

DeployNext == DeploySubmit \/ DeployAdmin

DeploySpec == DeployInit /\ [][DeployNext]_vars

(***************************************************************************)
(* Properties.                                                             *)
(***************************************************************************)
Terminal(entry) == entry.status \in {"Broadcasted", "Failed"}

InFlight(r) == runs[r].pc # "idle"

NoRunInFlight == \A r \in 1..MaxRuns : ~InFlight(r)

\* this step is the entry of a submit_authorization call with request req,
\* placed in slot r: the call either suspends on its first await or returns
Enters(r, req) ==
    /\ runs[r].pc = "idle"
    /\ \/ runs'[r].pc # "idle" /\ runs'[r].req = req
       \/ /\ IsSome(reply')
          /\ reply'[1].op = "submit_authorization"
          /\ reply'[1].run = r
          /\ reply'[1].req = Some(req)

\* this step is the entry of some submit_authorization call
EntersAny ==
    \E r \in 1..MaxRuns :
        /\ runs[r].pc = "idle"
        /\ \/ runs'[r].pc # "idle"
           \/ /\ IsSome(reply')
              /\ reply'[1].op = "submit_authorization"
              /\ reply'[1].run = r

\* this step frames an eth_sendRawTransaction request
IssuesSend == \E r \in 1..MaxRuns : runs[r].pc # "send" /\ runs'[r].pc = "send"

\* this step turns log entry i into Broadcasted
BecomesBroadcasted(i) ==
    logs[i].status # "Broadcasted" /\ logs'[i].status = "Broadcasted"

\* C1: for every log id, whatever the interleaving of submit_authorization
\* runs, admin calls and refresh_gas_balance, no step removes or renumbers an
\* entry, an entry's status changes only from Accepted to Broadcasted or from
\* Accepted to Failed (hence at most once), and an entry that is Broadcasted
\* or Failed is never changed again in any field.
C1_LogEntrySettlesOnce ==
    [][/\ Len(logs') >= Len(logs)
       /\ \A i \in 1..Len(logs) :
            /\ logs'[i].id = logs[i].id
            /\ logs'[i].status # logs[i].status
                  => logs[i].status = "Accepted" /\ Terminal(logs'[i])
            /\ Terminal(logs[i]) => logs'[i] = logs[i]]_vars

\* two runs were in flight together; the second to be reserved has been
\* broadcast, the first has failed afterwards or before
C1_Witness ==
    /\ Len(logs) = 2
    /\ logs[1].status = "Failed"
    /\ logs[2].status = "Broadcasted"
    /\ IsSome(reply)
    /\ reply[1].op = "submit_authorization"
    /\ ~reply[1].ok

\* C2: when every call the canister awaits (JSON-RPC backend, signer) is
\* eventually answered, every log entry reserved by a run eventually leaves
\* Accepted for Broadcasted or Failed; and in every state in which no run is
\* in flight, no log entry is Accepted.
C2_ReservedEntriesSettle ==
    /\ \A i \in 1..MaxLogs :
          (i <= Len(logs) /\ logs[i].status = "Accepted")
             ~> (i <= Len(logs) /\ Terminal(logs[i]))
    /\ [](NoRunInFlight => \A i \in 1..Len(logs) : logs[i].status # "Accepted")

\* both reservations have been settled, one of them by a broadcast, and no
\* run is left in flight
C2_Witness ==
    /\ NoRunInFlight
    /\ Len(logs) = MaxLogs
    /\ \A i \in 1..Len(logs) : Terminal(logs[i])
    /\ \E i \in 1..Len(logs) : logs[i].status = "Broadcasted"

\* C3: in every reachable state the log holds the ids 1..n in ascending
\* position order (entry i has id i: strictly increasing, no duplicate, no
\* gap) and next_log_id = n + 1, whatever the interleaving of runs.
C3_LogIdsDense ==
    /\ \A i \in 1..Len(logs) : logs[i].id = i
    /\ next_log_id = Len(logs) + 1

\* two runs in flight at once, each with its own reserved entry
C3_Witness ==
    \E r1, r2 \in 1..MaxRuns :
        /\ r1 # r2
        /\ InFlight(r1)
        /\ InFlight(r2)
        /\ runs[r1].log_id = 1
        /\ runs[r2].log_id = 2
        /\ Len(logs) = 2

\* C4: a submit_authorization call entered while config.paused is true
\* returns Paused whatever the request holds, and changes nothing: no log
\* entry, next_log_id, rate counters and every other field of the state
\* keep their values, no JSON-RPC id is taken and no call is left awaiting.
C4_PausedRefusesEverything ==
    [][(config.paused /\ EntersAny)
          => /\ IsSome(reply')
             /\ reply'[1].err = ErrPaused
             /\ ~reply'[1].ok
             /\ UNCHANGED <<relayer_state, JSON_RPC_ID, runs, refresh, derive>>]_vars

\* a paused, fully configured relayer has answered Paused to a request whose
\* sender address is one byte short
C4_Witness ==
    /\ config.paused
    /\ IsSome(config.rpc_target)
    /\ IsSome(config.evm_addr)
    /\ Jpyc \in DOMAIN assets
    /\ IsSome(reply)
    /\ reply[1].op = "submit_authorization"
    /\ reply[1].err = ErrPaused
    /\ reply[1].req = Some([WellFormed EXCEPT !.from = Bytes("alice", 19)])

\* C5, as claimed: while config.paused is true no step frames an
\* eth_sendRawTransaction request and no log entry becomes Broadcasted, the
\* runs already suspended when pause(true) was applied included.
C5_PauseStopsRunsInFlight ==
    [][config.paused
          => /\ ~IssuesSend
             /\ \A i \in 1..Len(logs) : ~BecomesBroadcasted(i)]_vars

\* C5, as the code has it: pause gates admission only.  While config.paused
\* is true no submission is admitted (no log entry is reserved, no run
\* starts); an eth_sendRawTransaction framed or an entry turned Broadcasted
\* while paused belongs to a run that was already in flight.
C5_PauseGatesAdmissionOnly ==
    [][config.paused
          => /\ Len(logs') = Len(logs)
             /\ \A r \in 1..MaxRuns : InFlight(r) \/ runs'[r].pc = "idle"
             /\ \A i \in 1..Len(logs) :
                   BecomesBroadcasted(i)
                      => \E r \in 1..MaxRuns :
                            runs[r].pc = "send" /\ runs[r].log_id = logs[i].id]_vars

\* the relayer is paused and a run has just returned the hash of the
\* transaction it broadcast
C5_Witness ==
    /\ config.paused
    /\ IsSome(reply)
    /\ reply[1].op = "submit_authorization"
    /\ reply[1].ok
    /\ \E i \in 1..Len(logs) : logs[i].status = "Broadcasted"

\* the request passes every check that precedes the asset lookup
ReachesAssetCheck(req) ==
    ~config.paused /\ req.from.len = 20 /\ req.to.len = 20

\* the request passes every check that precedes the expiry check
ReachesExpiryCheck(req) ==
    /\ ReachesAssetCheck(req)
    /\ req.asset \in DOMAIN assets
    /\ assets[req.asset].status \in {"Active", "Deprecated"}
    /\ req.valid_before.fits_u64

\* the request passes every check that precedes the rate limiter
ReachesRateLimiter(req) ==
    ReachesExpiryCheck(req) /\ req.valid_before.val > now

\* the RPC target, the relayer address and the chain id are all configured
ConfigurationComplete ==
    IsSome(config.rpc_target) /\ IsSome(config.evm_addr) /\ IsSome(config.chain_id)

\* C6, as claimed: on a fully configured relayer, a submission whose nonce,
\* sig_r or sig_s is not 32 bytes long (and that passes the checks made
\* before the rate limiter) returns InvalidNonceLength or
\* InvalidSignatureLength from its entry step, with no log entry reserved,
\* no rate counter updated, no JSON-RPC id taken and no call awaited.
C6_LengthsCheckedBeforeReservation ==
    [][\A r \in 1..MaxRuns : \A req \in AdmissionRequests :
          (/\ Enters(r, req)
           /\ ConfigurationComplete
           /\ ReachesRateLimiter(req)
           /\ (req.nonce.len # 32 \/ req.sig_r.len # 32 \/ req.sig_s.len # 32))
             => /\ IsSome(reply')
                /\ reply'[1].err.kind \in {"InvalidNonceLength", "InvalidSignatureLength"}
                /\ UNCHANGED <<logs, next_log_id, rate_state, JSON_RPC_ID, runs>>]_vars

\* C7: a submission that reaches the expiry check with valid_before <= now
\* (valid_before = now included) returns AuthorizationExpired and changes
\* nothing: the rate counters, the log, next_log_id and the JSON-RPC id keep
\* their values and no call is awaited.  With valid_before = now + 1 the
\* check passes: the result is not AuthorizationExpired and the rate
\* limiter is entered.
C7_ExpiryIsStrict ==
    [][\A r \in 1..MaxRuns : \A req \in AdmissionRequests :
          (Enters(r, req) /\ ReachesExpiryCheck(req))
             => /\ req.valid_before.val <= now
                   => /\ reply' = SubmitReply(r, req, Fail(ErrAuthorizationExpired))
                      /\ UNCHANGED <<relayer_state, JSON_RPC_ID, runs, refresh, derive>>
                /\ req.valid_before.val = now + 1
                   => /\ ~(IsSome(reply') /\ reply'[1].err = ErrAuthorizationExpired)
                      /\ rate_state' =
                            enforce_rate_limits(rate_limit, rate_state,
                                                to_hex_address(req.from).val,
                                                req.value, now).rate_state]_vars

\* an unpaused relayer with the asset registered has answered
\* AuthorizationExpired to a request with valid_before = now, and holds no
\* log entry and no rate counter
C7_Witness ==
    /\ IsSome(reply)
    /\ reply[1].op = "submit_authorization"
    /\ reply[1].err = ErrAuthorizationExpired
    /\ reply[1].req = Some([WellFormed EXCEPT !.valid_before = NatIn(now)])
    /\ ~config.paused
    /\ logs = << >>
    /\ rate_state = EmptyRateState

\* C8: a submission that reaches the asset lookup returns AssetNotRegistered
\* when its asset is not in the registry and AssetNotActive when the asset
\* is Disabled, in both cases with the log, next_log_id, the rate counters
\* and the rest of the state unchanged; with an Active or a Deprecated
\* asset it returns neither error.
C8_AssetStatusGate ==
    [][\A r \in 1..MaxRuns : \A req \in AdmissionRequests :
          (Enters(r, req) /\ ReachesAssetCheck(req))
             => /\ req.asset \notin DOMAIN assets
                   => /\ reply' = SubmitReply(r, req, Fail(ErrAssetNotRegistered))
                      /\ UNCHANGED <<relayer_state, JSON_RPC_ID, runs, refresh, derive>>
                /\ (req.asset \in DOMAIN assets /\ assets[req.asset].status = "Disabled")
                   => /\ reply' = SubmitReply(r, req, Fail(ErrAssetNotActive))
                      /\ UNCHANGED <<relayer_state, JSON_RPC_ID, runs, refresh, derive>>
                /\ (/\ req.asset \in DOMAIN assets
                    /\ assets[req.asset].status \in {"Active", "Deprecated"})
                   => ~(/\ IsSome(reply')
                        /\ reply'[1].err.kind \in {"AssetNotRegistered",
                                                   "AssetNotActive"})]_vars

\* a submission for a Deprecated asset has been admitted: its log entry is
\* reserved and its run awaits the authorizationState call
C8_Witness ==
    /\ Jpyc \in DOMAIN assets
    /\ assets[Jpyc].status = "Deprecated"
    /\ \E r \in 1..MaxRuns :
          /\ runs[r].pc = "authorization_state"
          /\ runs[r].asset_cfg.status = "Deprecated"
    /\ Len(logs) = 1

MinuteWindow(t) == t \div 60

\* the hits the per-minute counter of `from` holds for the window of time t
\* (none when the counter is of another window)
WindowHits(rs, from, t) ==
    LET counter == EntryOrDefault(rs.per_min_counter, from)
    IN  IF counter.window_start_sec = MinuteWindow(t) THEN counter.hits ELSE 0

\* the amount `from` has submitted so far in the day of time t
DayAmount(rs, from, t) ==
    LET counter == EntryOrDefault(rs.daily_counter, from)
    IN  IF counter.window_start_sec = t \div 86400 THEN counter.amount ELSE NatZero

\* submitting `value` keeps `from` within the daily cap
WithinDailyCap(from, value) ==
    \/ rate_limit.daily_cap_token = 0
    \/ ~NatGT(NatAdd(DayAmount(rate_state, from, now), value),
              NatScale(rate_limit.daily_cap_token, JPYC_UNIT_MULTIPLIER))

\* the log entries of `from` reserved in minute window w
EntriesInWindow(from, w) ==
    {i \in 1..Len(logs) : logs[i].from = from /\ MinuteWindow(logs[i].ts_sec) = w}

\* this step reserves a log entry for `from` at the current time
Reserves(from) ==
    /\ Len(logs') = Len(logs) + 1
    /\ logs'[Len(logs')].from = from
    /\ logs'[Len(logs')].ts_sec = now
    /\ next_log_id' = next_log_id + 1

\* C9: with per_addr_per_min = N > 0, a submission that reaches the rate
\* limiter while its sender's counter holds fewer than N hits for the
\* current minute window reserves a log entry and adds one hit, provided
\* the daily cap is not exceeded; one that finds N hits returns RateLimited
\* and reserves nothing.  So the first N of a window are admitted and every
\* later one is refused; no per-minute counter ever exceeds N hits and the
\* log never holds more than N entries of one sender with ts_sec in the
\* same minute window.
C9_PerMinuteLimit ==
    /\ [](rate_limit.per_addr_per_min > 0)
    /\ [](\A from \in DOMAIN rate_state.per_min_counter :
             rate_state.per_min_counter[from].hits <= rate_limit.per_addr_per_min)
    /\ [](\A i \in 1..Len(logs) :
             Cardinality(EntriesInWindow(logs[i].from, MinuteWindow(logs[i].ts_sec)))
                <= rate_limit.per_addr_per_min)
    /\ [][\A r \in 1..MaxRuns : \A sender \in RateSenders :
             (/\ Enters(r, Request(sender, 90000))
              /\ ReachesRateLimiter(Request(sender, 90000)))
                => IF WindowHits(rate_state, SenderHex(sender), now)
                         >= rate_limit.per_addr_per_min
                   THEN /\ reply' = SubmitReply(r, Request(sender, 90000),
                                                Fail(ErrRateLimited))
                        /\ UNCHANGED <<logs, next_log_id, runs, JSON_RPC_ID>>
                   ELSE /\ WindowHits(rate_state', SenderHex(sender), now)
                              = WindowHits(rate_state, SenderHex(sender), now) + 1
                        /\ WithinDailyCap(SenderHex(sender), JPYC_UNIT_MULTIPLIER)
                              => Reserves(SenderHex(sender))]_vars

\* the sender holds N log entries in the current minute window, is within
\* its daily cap, and its next submission has been refused
C9_Witness ==
    /\ IsSome(reply)
    /\ reply[1].op = "submit_authorization"
    /\ reply[1].err = ErrRateLimited
    /\ reply[1].req = Some(Request("alice", 90000))
    /\ Cardinality(EntriesInWindow(SenderHex("alice"), MinuteWindow(now)))
          = rate_limit.per_addr_per_min
    /\ WindowHits(rate_state, SenderHex("alice"), now) = rate_limit.per_addr_per_min

\* the sender's per-minute counter is of the previous minute window and
\* holds per_addr_per_min hits
ExhaustedPreviousWindow(from) ==
    LET counter == EntryOrDefault(rate_state.per_min_counter, from)
    IN  /\ counter.window_start_sec = MinuteWindow(now) - 1
        /\ counter.hits >= rate_limit.per_addr_per_min

\* C10, as claimed: when the sender has exhausted per_addr_per_min in minute
\* window k-1, its first submission in window k finds the counter reset and
\* is accepted: it reserves a log entry and leaves the counter at window k
\* with one hit.
C10_FreshWindowAccepts ==
    [][\A r \in 1..MaxRuns : \A sender \in RateSenders :
          (/\ Enters(r, Request(sender, 90000))
           /\ ReachesRateLimiter(Request(sender, 90000))
           /\ ExhaustedPreviousWindow(SenderHex(sender)))
             => /\ Reserves(SenderHex(sender))
                /\ rate_state'.per_min_counter[SenderHex(sender)]
                      = [window_start_sec |-> MinuteWindow(now),
                         amount |-> JPYC_UNIT_MULTIPLIER, hits |-> 1]]_vars

\* C10, as the code has it: when the sender has exhausted per_addr_per_min
\* in minute window k-1, its first submission in window k finds the
\* per-minute counter reset to (k, 0, 0) and passes the per-minute rule,
\* leaving the counter at (k, value, 1); it is accepted (a log entry is
\* reserved) when the daily cap is not exceeded, and otherwise returns
\* RateLimited without a log entry.  Submissions pass the per-minute rule in
\* window k until the counter holds per_addr_per_min hits.
C10_FreshWindowPassesPerMinuteRule ==
    [][\A r \in 1..MaxRuns : \A sender \in RateSenders :
          (/\ Enters(r, Request(sender, 90000))
           /\ ReachesRateLimiter(Request(sender, 90000)))
             => /\ ExhaustedPreviousWindow(SenderHex(sender))
                   => /\ rate_state'.per_min_counter[SenderHex(sender)]
                            = [window_start_sec |-> MinuteWindow(now),
                               amount |-> JPYC_UNIT_MULTIPLIER, hits |-> 1]
                      /\ IF WithinDailyCap(SenderHex(sender), JPYC_UNIT_MULTIPLIER)
                         THEN Reserves(SenderHex(sender))
                         ELSE /\ reply' = SubmitReply(r, Request(sender, 90000),
                                                      Fail(ErrRateLimited))
                              /\ UNCHANGED <<logs, next_log_id>>
                /\ (/\ WindowHits(rate_state, SenderHex(sender), now)
                          < rate_limit.per_addr_per_min
                    /\ rate_limit.per_addr_per_min > 0)
                   => WindowHits(rate_state', SenderHex(sender), now)
                         = WindowHits(rate_state, SenderHex(sender), now) + 1]_vars

\* the sender filled the previous minute window and has been admitted again
\* in the current one
C10_Witness ==
    /\ Cardinality(EntriesInWindow(SenderHex("alice"), MinuteWindow(now) - 1))
          = rate_limit.per_addr_per_min
    /\ Cardinality(EntriesInWindow(SenderHex("alice"), MinuteWindow(now))) = 1
    /\ WindowHits(rate_state, SenderHex("alice"), now) = 1

\* the sender's submission passes the per-minute rule in the current state
PassesPerMinuteRule(from) ==
    \/ rate_limit.per_addr_per_min = 0
    \/ WindowHits(rate_state, from, now) < rate_limit.per_addr_per_min

\* the amount the per-minute counter of `from` holds for the window of time t
WindowAmount(rs, from, t) ==
    LET counter == EntryOrDefault(rs.per_min_counter, from)
    IN  IF counter.window_start_sec = MinuteWindow(t) THEN counter.amount ELSE NatZero

\* the hits the daily counter of `from` holds for the day of time t
DayHits(rs, from, t) ==
    LET counter == EntryOrDefault(rs.daily_counter, from)
    IN  IF counter.window_start_sec = t \div 86400 THEN counter.hits ELSE 0

\* this step is the entry of alice's submission of `value` in slot r, and the
\* submission reaches the rate limiter
EntersLimiter(r, value) ==
    /\ Enters(r, RequestOf("alice", value))
    /\ ReachesRateLimiter(RequestOf("alice", value))

\* this step returns RateLimited to alice's submission of `value`
RefusesRateLimited(r, value) ==
    reply' = SubmitReply(r, RequestOf("alice", value), Fail(ErrRateLimited))

\* C11: with daily_cap_token = D > 0, a submission that passes the
\* per-minute rule returns RateLimited exactly when the amount held by the
\* sender's daily counter for the current 86400-second window plus the
\* submission's value is strictly greater than D * 10^18; when the sum is
\* at most D * 10^18 (equality included) the submission is accepted and
\* reserves a log entry.
C11_DailyCapIsStrict ==
    [][\A r \in 1..MaxRuns : \A value \in CapValues :
          (/\ EntersLimiter(r, value)
           /\ rate_limit.daily_cap_token > 0
           /\ PassesPerMinuteRule(SenderHex("alice")))
             => LET total == NatAdd(DayAmount(rate_state, SenderHex("alice"), now), value)
                    cap   == NatScale(rate_limit.daily_cap_token, JPYC_UNIT_MULTIPLIER)
                IN  /\ RefusesRateLimited(r, value) <=> NatGT(total, cap)
                    /\ ~NatGT(total, cap) => Reserves(SenderHex("alice"))
                    /\ DayAmount(rate_state', SenderHex("alice"), now) = total]_vars

\* two submissions were accepted and the second brought the daily amount to
\* exactly the cap
C11_Witness ==
    /\ rate_limit.daily_cap_token > 0
    /\ Len(logs) = 2
    /\ DayHits(rate_state, SenderHex("alice"), now) = 2
    /\ DayAmount(rate_state, SenderHex("alice"), now)
          = NatScale(rate_limit.daily_cap_token, JPYC_UNIT_MULTIPLIER)
    /\ logs[2].ts_sec \div 86400 = now \div 86400

\* C12, as claimed: a submission refused by the daily-cap rule leaves the
\* sender's daily counter (amount and hits) as it was before the submission.
C12_DailyRejectionLeavesCounter ==
    [][\A r \in 1..MaxRuns : \A value \in CapValues :
          (/\ EntersLimiter(r, value)
           /\ PassesPerMinuteRule(SenderHex("alice"))
           /\ ~WithinDailyCap(SenderHex("alice"), value))
             => /\ DayAmount(rate_state', SenderHex("alice"), now)
                      = DayAmount(rate_state, SenderHex("alice"), now)
                /\ DayHits(rate_state', SenderHex("alice"), now)
                      = DayHits(rate_state, SenderHex("alice"), now)]_vars

\* C12, as the code has it: a submission refused by the per-minute rule
\* leaves both counters as they were; a submission refused by the daily-cap
\* rule has already been added to the sender's daily counter and stays
\* counted (hits one higher, amount increased by the value), so the amount
\* of the counter can exceed the cap and later submissions of the day are
\* measured against it.
C12_DailyRejectionIsCounted ==
    [][\A r \in 1..MaxRuns : \A value \in CapValues :
          EntersLimiter(r, value)
             => /\ ~PassesPerMinuteRule(SenderHex("alice"))
                   => RefusesRateLimited(r, value) /\ UNCHANGED rate_state
                /\ (/\ PassesPerMinuteRule(SenderHex("alice"))
                    /\ ~WithinDailyCap(SenderHex("alice"), value))
                      => /\ RefusesRateLimited(r, value)
                         /\ DayAmount(rate_state', SenderHex("alice"), now)
                               = NatAdd(DayAmount(rate_state, SenderHex("alice"), now),
                                        value)
                         /\ DayHits(rate_state', SenderHex("alice"), now)
                               = DayHits(rate_state, SenderHex("alice"), now) + 1]_vars

\* a submission of one token has been refused on the daily cap although the
\* one accepted submission of the day is of one token: the refused
\* submission between them is still counted
C12_Witness ==
    /\ IsSome(reply)
    /\ reply[1].op = "submit_authorization"
    /\ reply[1].err = ErrRateLimited
    /\ reply[1].req = Some(RequestOf("alice", JPYC_UNIT_MULTIPLIER))
    /\ rate_limit.daily_cap_token > 0
    /\ rate_limit.per_addr_per_min = 0
    /\ Len(logs) = 1
    /\ logs[1].ts_sec = now
    /\ ~NatGT(NatAdd(logs[1].value, JPYC_UNIT_MULTIPLIER),
              NatScale(rate_limit.daily_cap_token, JPYC_UNIT_MULTIPLIER))
    /\ DayHits(rate_state, SenderHex("alice"), now) = 3

\* C13: a submission that passes the per-minute rule (per_addr_per_min > 0)
\* and is refused by the daily-cap rule returns RateLimited and keeps its
\* per-minute update: the sender's per-minute hits is one higher and its
\* per-minute amount is increased by the value, while no log entry is
\* reserved and next_log_id keeps its value.
C13_PerMinuteUpdateKept ==
    [][\A r \in 1..MaxRuns : \A value \in CapValues :
          (/\ EntersLimiter(r, value)
           /\ rate_limit.per_addr_per_min > 0
           /\ PassesPerMinuteRule(SenderHex("alice"))
           /\ ~WithinDailyCap(SenderHex("alice"), value))
             => /\ RefusesRateLimited(r, value)
                /\ WindowHits(rate_state', SenderHex("alice"), now)
                      = WindowHits(rate_state, SenderHex("alice"), now) + 1
                /\ WindowAmount(rate_state', SenderHex("alice"), now)
                      = NatAdd(WindowAmount(rate_state, SenderHex("alice"), now), value)
                /\ UNCHANGED <<logs, next_log_id, runs, JSON_RPC_ID>>]_vars

\* the sender's only submission of the minute was refused by the daily cap:
\* the per-minute counter holds its hit and the log holds no entry of the
\* minute
C13_Witness ==
    /\ IsSome(reply)
    /\ reply[1].op = "submit_authorization"
    /\ reply[1].err = ErrRateLimited
    /\ rate_limit.per_addr_per_min > 0
    /\ WindowHits(rate_state, SenderHex("alice"), now) = 1
    /\ EntriesInWindow(SenderHex("alice"), MinuteWindow(now)) = {}
    /\ Len(logs) > 0

\* C14: a bound of 0 is disabled.  With per_addr_per_min = 0 no per-minute
\* counter is ever created or changed and a submission is refused by the
\* limiter only when it exceeds the daily cap; with daily_cap_token = 0 no
\* daily counter is ever created or changed and a submission is refused by
\* the limiter only when the per-minute hits are exhausted; with both 0 a
\* submission that reaches the limiter is never RateLimited, reserves its
\* log entry and leaves rate_state unchanged.
C14_ZeroDisablesRule ==
    /\ [](rate_limit.per_addr_per_min = 0 => rate_state.per_min_counter = << >>)
    /\ [](rate_limit.daily_cap_token = 0 => rate_state.daily_counter = << >>)
    /\ [][\A r \in 1..MaxRuns : \A value \in CapValues :
             EntersLimiter(r, value)
                => /\ (/\ rate_limit.per_addr_per_min = 0
                       /\ WithinDailyCap(SenderHex("alice"), value))
                         => ~RefusesRateLimited(r, value) /\ Reserves(SenderHex("alice"))
                   /\ (/\ rate_limit.daily_cap_token = 0
                       /\ PassesPerMinuteRule(SenderHex("alice")))
                         => ~RefusesRateLimited(r, value) /\ Reserves(SenderHex("alice"))
                   /\ (rate_limit.per_addr_per_min = 0 /\ rate_limit.daily_cap_token = 0)
                         => /\ Reserves(SenderHex("alice"))
                            /\ UNCHANGED rate_state]_vars

\* with both bounds 0 the sender has reserved MaxCapLogs entries in one
\* minute, two tokens among them, and no counter exists
C14_Witness ==
    /\ rate_limit.per_addr_per_min = 0
    /\ rate_limit.daily_cap_token = 0
    /\ Len(logs) = MaxCapLogs
    /\ \A i \in 1..Len(logs) : logs[i].ts_sec = now
    /\ rate_state = EmptyRateState

\* this step returns an error to the submit_authorization call of slot r and
\* turns log entry i, reserved by that call, into Failed
FailsEntry(r, i) ==
    /\ IsSome(reply')
    /\ reply'[1].op = "submit_authorization"
    /\ reply'[1].run = r
    /\ ~reply'[1].ok
    /\ i \in 1..Len(logs')
    /\ logs'[i].status = "Failed"
    /\ i > Len(logs) \/ logs[i].status = "Accepted"

\* C15, as claimed: whenever a run fails after its log entry was reserved,
\* the entry's fail_reason is the display form of the error that
\* submit_authorization returns to the caller, at every failure point.
C15_FailReasonIsReturnedError ==
    [][\A r \in 1..MaxRuns : \A i \in 1..Len(logs') :
          FailsEntry(r, i) => logs'[i].fail_reason = Some(reply'[1].val)]_vars

\* the last byte of the result "0x" + chars is not zero (an odd number of
\* digits is read with a leading zero digit; the empty result has no byte)
LastByteNonZero(chars) ==
    /\ Len(chars) > 0
    /\ \/ chars[Len(chars)] # "0"
       \/ Len(chars) > 1 /\ chars[Len(chars) - 1] # "0"

\* C16: when the authorizationState eth_call of a run returns a hex string,
\* the run halts with AuthorizationAlreadyUsed exactly when the last byte of
\* the result is non-zero: its log entry becomes Failed, the run ends and
\* frames no further request.  With a last byte of zero, or the empty
\* result "0x", the run does not halt at the replay check: it frames the
\* simulation eth_call (unless the RPC target has become unusable
\* meanwhile) and its entry stays Accepted.  AuthorizationAlreadyUsed is
\* returned at no other point.
C16_ReplayCheckReadsLastByte ==
    [][/\ \A r \in 1..MaxRuns : \A chars \in ReplayResults :
             AfterAuthorizationState(r, Hex(chars))
                => IF LastByteNonZero(chars)
                   THEN /\ reply' = SubmitReply(r, runs[r].req,
                                                Fail(ErrAuthorizationAlreadyUsed))
                        /\ logs' = mark_log_failure(logs, runs[r].log_id,
                                                    <<"authorization already used">>)
                        /\ logs'[runs[r].log_id].status = "Failed"
                        /\ runs'[r] = IdleRun
                        /\ JSON_RPC_ID' = JSON_RPC_ID
                   ELSE /\ ~(IsSome(reply') /\ reply'[1].err = ErrAuthorizationAlreadyUsed)
                        /\ RpcDispatch.ok
                              => /\ runs'[r].pc = "simulate"
                                 /\ runs'[r].calls = Append(runs[r].calls, "eth_call")
                                 /\ JSON_RPC_ID' = JSON_RPC_ID + 1
                                 /\ logs' = logs
       /\ (IsSome(reply') /\ reply'[1].err = ErrAuthorizationAlreadyUsed)
             => \E r \in 1..MaxRuns : \E chars \in ReplayResults :
                   /\ LastByteNonZero(chars)
                   /\ AfterAuthorizationState(r, Hex(chars))]_vars

\* one run was halted by the replay check and its entry is Failed with that
\* reason, while another run went past the check and was broadcast
C16_Witness ==
    /\ IsSome(reply)
    /\ reply[1].op = "submit_authorization"
    /\ reply[1].err = ErrAuthorizationAlreadyUsed
    /\ \E i \in 1..Len(logs) :
          /\ logs[i].status = "Failed"
          /\ logs[i].fail_reason = Some(<<"authorization already used">>)
    /\ \E i \in 1..Len(logs) : logs[i].status = "Broadcasted"

\* C17: a run holds the threshold_wei read at its entry.  When eth_getBalance
\* returns balance b, last_known_gas becomes b whether or not the run
\* continues; when b is below the threshold held by the run, the run returns
\* GasBalanceLow{required: threshold, actual: b}, its log entry becomes
\* Failed and the run ends without framing eth_getTransactionCount or any
\* later call; when b is equal to or above the threshold the run frames
\* eth_getTransactionCount and its entry stays Accepted.
C17_GasBalanceGate ==
    [][\A r \in 1..MaxRuns :
          /\ \A req \in {Request("alice", 2000)} :
                (Enters(r, req) /\ runs'[r].pc # "idle")
                   => runs'[r].threshold_wei = config.threshold_wei
          /\ (runs[r].pc # "idle" /\ runs'[r].pc # "idle")
                => runs'[r].threshold_wei = runs[r].threshold_wei
          /\ \A chars \in GasBalanceResults :
                AfterBalance(r, Hex(chars))
                   => LET b == nat_from_hex_with_zero_default(<<"0", "x">> \o chars).val
                      IN  /\ last_known_gas' = b
                          /\ IF b < runs[r].threshold_wei
                             THEN /\ reply' = SubmitReply(r, runs[r].req,
                                        Fail(ErrGasBalanceLow(runs[r].threshold_wei, b)))
                                  /\ logs'[runs[r].log_id].status = "Failed"
                                  /\ runs'[r] = IdleRun
                                  /\ JSON_RPC_ID' = JSON_RPC_ID
                             ELSE /\ runs'[r].pc = "nonce"
                                  /\ runs'[r].calls
                                        = Append(runs[r].calls, "eth_getTransactionCount")
                                  /\ logs' = logs
                                  /\ reply' = None]_vars

\* one run passed the gate and was broadcast; another has just failed with
\* a balance of 1 against a threshold of 100, and last_known_gas holds that
\* balance
C17_Witness ==
    /\ Len(logs) = 2
    /\ logs[1].status = "Broadcasted"
    /\ logs[2].status = "Failed"
    /\ logs[2].fail_reason = Some(<<"relayer gas below threshold">>)
    /\ last_known_gas = 1
    /\ config.threshold_wei = 100
    /\ IsSome(reply)
    /\ reply[1].err = ErrGasBalanceLow(100, 1)

\* the external calls of a run, in the order of the pipeline
CallOrder ==
    <<"authorizationState", "eth_call", "eth_estimateGas", "eth_getBlockByNumber",
      "eth_maxPriorityFeePerGas", "eth_getBalance", "eth_getTransactionCount",
      "sign_with_ecdsa", "eth_sendRawTransaction">>

\* this step ends run r with its log entry Failed
EndsFailed(r) ==
    /\ runs'[r] = IdleRun
    /\ logs'[runs[r].log_id].status = "Failed"

\* C18: the calls a run has issued are always an initial part of
\* eth_call(authorizationState), eth_call(transferWithAuthorization),
\* eth_estimateGas, eth_getBlockByNumber, eth_maxPriorityFeePerGas,
\* eth_getBalance, eth_getTransactionCount, sign, eth_sendRawTransaction, so
\* each is issued at most once and in that order; the first is issued in
\* the step that reserves the run's log entry and the entry exists and is
\* Accepted for as long as the run is in flight; a step of the run either
\* ends it or issues exactly the next call; a call that returns a failure
\* ends the run with its entry Failed, so that eth_sendRawTransaction is
\* issued only by a run whose eight earlier calls all returned successfully.
C18_CallsInPipelineOrder ==
    /\ [](\A r \in 1..MaxRuns :
             InFlight(r)
                => /\ Len(runs[r].calls) \in 1..Len(CallOrder)
                   /\ runs[r].calls = SubSeq(CallOrder, 1, Len(runs[r].calls))
                   /\ runs[r].log_id \in 1..Len(logs)
                   /\ logs[runs[r].log_id].status = "Accepted")
    /\ [][\A r \in 1..MaxRuns :
             /\ (~InFlight(r) /\ runs'[r].pc # "idle")
                   => /\ runs'[r].calls = <<CallOrder[1]>>
                      /\ Len(logs') = Len(logs) + 1
                      /\ runs'[r].log_id = Len(logs')
             /\ (InFlight(r) /\ runs'[r] # runs[r])
                   => \/ runs'[r] = IdleRun
                      \/ runs'[r].calls
                            = Append(runs[r].calls, CallOrder[Len(runs[r].calls) + 1])
             /\ (InFlight(r) /\ runs'[r].pc = "send" /\ runs[r].pc # "send")
                   => runs[r].pc = "sign" /\ runs'[r].calls = CallOrder
             /\ \A resp \in AuthorizationStateResponses :
                   (AfterAuthorizationState(r, resp) /\ ~authorization_unused(resp).ok)
                      => EndsFailed(r)
             /\ \A resp \in SimulateResponses :
                   (AfterSimulate(r, resp) /\ ~simulate_result(resp).ok) => EndsFailed(r)
             /\ \A resp \in EstimateGasResponses :
                   (AfterEstimateGas(r, resp) /\ ~estimate_gas_result(resp).ok)
                      => EndsFailed(r)
             /\ \A resp \in BaseFeeResponses :
                   (AfterBaseFee(r, resp) /\ ~base_fee_result(resp).ok) => EndsFailed(r)
             /\ \A resp \in PriorityFeeResponses :
                   (AfterPriorityFee(r, resp) /\ ~quantity_result(resp).ok)
                      => EndsFailed(r)
             /\ \A resp \in BalanceResponses :
                   (AfterBalance(r, resp) /\ ~quantity_result(resp).ok) => EndsFailed(r)
             /\ \A resp \in NonceResponses :
                   (AfterNonce(r, resp) /\ ~quantity_result(resp).ok) => EndsFailed(r)
             /\ \A sresp \in SignResponses :
                   (/\ AfterSign(r, sresp)
                    /\ ~sign_response(sresp,
                                      evm_address_bytes(runs[r].relayer_addr).val).ok)
                      => EndsFailed(r)]_vars

\* one run has issued all nine calls and awaits eth_sendRawTransaction while
\* the other run was ended by a failed simulation
C18_Witness ==
    /\ \E r \in 1..MaxRuns : InFlight(r) /\ runs[r].calls = CallOrder
    /\ \E i \in 1..Len(logs) :
          /\ logs[i].status = "Failed"
          /\ IsSome(logs[i].fail_reason)
          /\ logs[i].fail_reason[1][1] = "simulation failed: "

\* this step returns from the submit_authorization call of slot r
Returns(r) ==
    /\ IsSome(reply')
    /\ reply'[1].op = "submit_authorization"
    /\ reply'[1].run = r

\* C19: submit_authorization returns Ok(h) exactly in the step in which the
\* run's eth_sendRawTransaction call returns a string result h (any other
\* outcome of that call returns Err); that step, and no other, turns the
\* run's log entry into Broadcasted with tx_hash = h and no fail_reason;
\* every Err returned after the reservation leaves the run's entry Failed
\* with no tx_hash.  So a Broadcasted entry always holds a tx_hash and no
\* fail_reason, and a Failed entry holds a fail_reason and no tx_hash.
C19_OkIffBroadcast ==
    /\ [](\A i \in 1..Len(logs) :
             /\ logs[i].status = "Broadcasted"
                   => IsSome(logs[i].tx_hash) /\ IsNone(logs[i].fail_reason)
             /\ logs[i].status = "Failed"
                   => IsNone(logs[i].tx_hash) /\ IsSome(logs[i].fail_reason)
             /\ logs[i].status = "Accepted"
                   => IsNone(logs[i].tx_hash) /\ IsNone(logs[i].fail_reason))
    /\ [][\A r \in 1..MaxRuns :
             /\ \A resp \in SendResponses :
                   AfterSend(r, resp)
                      => IF resp.kind = "result" /\ resp.json.t = "string"
                         THEN /\ reply' = SubmitReply(r, runs[r].req, Ok(resp.json.s))
                              /\ logs' = [logs EXCEPT
                                             ![runs[r].log_id].status = "Broadcasted",
                                             ![runs[r].log_id].tx_hash = Some(resp.json.s)]
                         ELSE Returns(r) /\ ~reply'[1].ok /\ EndsFailed(r)
             /\ (Returns(r) /\ reply'[1].ok)
                   => /\ runs[r].pc = "send"
                      /\ \E h \in SendResults :
                            /\ AfterSend(r, RespResult(JString(h)))
                            /\ reply'[1].val = h
             /\ (Returns(r) /\ ~reply'[1].ok /\ (InFlight(r) \/ Len(logs') > Len(logs)))
                   => LET i == IF InFlight(r) THEN runs[r].log_id ELSE Len(logs')
                      IN  logs'[i].status = "Failed" /\ IsNone(logs'[i].tx_hash)
             /\ \A i \in 1..Len(logs) :
                   (BecomesBroadcasted(i) /\ InFlight(r) /\ runs[r].log_id = i)
                      => /\ Returns(r)
                         /\ reply'[1].ok
                         /\ logs'[i].tx_hash = Some(reply'[1].val)]_vars

\* the call has just returned Ok(h), its entry is Broadcasted with tx_hash h,
\* and the entry of an earlier run that returned Err is Failed
C19_Witness ==
    /\ IsSome(reply)
    /\ reply[1].op = "submit_authorization"
    /\ reply[1].ok
    /\ Len(logs) = 2
    /\ logs[1].status = "Failed"
    /\ IsNone(logs[1].tx_hash)
    /\ logs[2].status = "Broadcasted"
    /\ logs[2].tx_hash = Some(reply[1].val)

\* a 0x-prefixed string of 64 hex digits
IsTransactionHash(h) ==
    /\ Len(h) = 66
    /\ h[1] = "0"
    /\ h[2] = "x"
    /\ \A i \in 3..66 : IsHexDigit(h[i])

\* C20, as claimed: whenever submit_authorization returns Ok(h), h is a
\* 0x-prefixed 32-byte transaction hash, whatever string the node returned
\* from eth_sendRawTransaction, and so is the tx_hash of every Broadcasted
\* log entry.
C20_OkIsTransactionHash ==
    /\ (IsSome(reply) /\ reply[1].op = "submit_authorization" /\ reply[1].ok)
          => IsTransactionHash(reply[1].val)
    /\ \A i \in 1..Len(logs) :
          logs[i].status = "Broadcasted" => IsTransactionHash(logs[i].tx_hash[1])

\* this step leaves run r suspended on a JSON-RPC call it has just framed
FramesCall(r) ==
    /\ runs'[r].pc \notin {"idle", "sign"}
    /\ runs'[r].pc # runs[r].pc

\* C21: every JSON-RPC call of a run is dispatched to the rpc target that was
\* configured when the run took its snapshot, before its first suspension,
\* whatever set_rpc_target does while the run is suspended: each call a run
\* frames after its first goes to the same target as the one before it
C21_CallsUseSnapshotTarget ==
    [][\A r \in 1..MaxRuns :
           InFlight(r) /\ FramesCall(r) => runs'[r].target = runs[r].target]_vars

(***************************************************************************)
(* Reading an RLP encoding back, item by item.                             *)
(***************************************************************************)
RECURSIVE CellsFor(_, _, _)
\* the number of cells from index i on that hold n bytes
CellsFor(data, i, n) ==
    IF n <= 0 THEN 0
    ELSE 1 + CellsFor(data, i + 1, n - (IF IsByte(data[i]) THEN 1 ELSE data[i].len))

RECURSIVE BigEndian(_)
BigEndian(cells) ==
    IF cells = << >> THEN 0
    ELSE 256 * BigEndian(SubSeq(cells, 1, Len(cells) - 1)) + cells[Len(cells)].byte

\* the prefix of the item that starts at cell i: the number of prefix cells
\* and the number of payload bytes they announce
HeaderOf(data, i) ==
    LET b == data[i].byte
    IN  IF b < 128 THEN [skip |-> 0, len |-> 1]
        ELSE IF b <= 183 THEN [skip |-> 1, len |-> b - 128]
        ELSE IF b <= 191
        THEN [skip |-> 1 + (b - 183),
              len |-> BigEndian(SubSeq(data, i + 1, i + (b - 183)))]
        ELSE IF b <= 247 THEN [skip |-> 1, len |-> b - 192]
        ELSE [skip |-> 1 + (b - 247),
              len |-> BigEndian(SubSeq(data, i + 1, i + (b - 247)))]

ItemCells(data, i) ==
    HeaderOf(data, i).skip
        + CellsFor(data, i + HeaderOf(data, i).skip, HeaderOf(data, i).len)

RECURSIVE RlpSplit(_, _)
\* the items encoded one after the other from cell i on
RlpSplit(data, i) ==
    IF i > Len(data) THEN << >>
    ELSE <<SubSeq(data, i, i + ItemCells(data, i) - 1)>>
             \o RlpSplit(data, i + ItemCells(data, i))

\* the bytes an encoded item carries
RlpPayload(item) == SubSeq(item, HeaderOf(item, 1).skip + 1, Len(item))

\* the encoded items of a typed envelope 0x02 || rlp(list)
EnvelopeItems(envelope) == RlpSplit(RlpPayload(Tail(envelope)), 1)

\* the values a run holds in its locals across its awaits
Snapshot(run) ==
    [threshold_wei |-> run.threshold_wei, chain_id |-> run.chain_id,
     relayer_addr |-> run.relayer_addr, ecdsa_key_name |-> run.ecdsa_key_name,
     derivation_path |-> run.derivation_path, asset_cfg |-> run.asset_cfg]

\* what the state holds for the same values
Configuration(asset) ==
    [threshold_wei |-> config.threshold_wei, chain_id |-> Unwrap(config.chain_id),
     relayer_addr |-> Unwrap(config.evm_addr),
     ecdsa_key_name |-> config.ecdsa_key_name,
     derivation_path |-> config.ecdsa_derivation_path, asset_cfg |-> assets[asset]]

\* the call run r awaits after this step was framed from the snapshot snap
CallUses(r, snap) ==
    LET pc     == runs'[r].pc
        params == runs'[r].params
        asset  == snap.asset_cfg.evm_address
        items  == IF pc = "sign"
                  THEN EnvelopeItems(params[1].message_hash.keccak256)
                  ELSE EnvelopeItems(params[1][2])
    IN  /\ pc = "authorization_state" => params[1].to = asset
        /\ pc \in {"simulate", "estimate_gas"} =>
               params[1].from = snap.relayer_addr /\ params[1].to = asset
        /\ pc \in {"balance", "nonce"} => params[1] = snap.relayer_addr
        /\ pc = "sign" =>
               /\ params[1].derivation_path = snap.derivation_path
               /\ params[1].key_id.name = snap.ecdsa_key_name
        /\ pc \in {"sign", "send"} =>
               /\ BigEndian(RlpPayload(items[1])) = snap.chain_id.val
               /\ RlpPayload(items[6]) = Blob(evm_address_bytes(asset).val.tag, 20)

\* C22: the admin operations applied while a run is suspended do not affect
\* it.  The values the run holds are those of the state at its entry and
\* stay the same until it returns; every call it frames carries them (the
\* relayer address as "from" and as the account queried, the asset contract
\* as "to", the chain id and the contract in the envelope, the derivation
\* path and key name in the signing request); a balance of 100 passes the
\* gas gate exactly when the held threshold is at most 100; and the signature
\* is accepted exactly when it recovers to the held relayer address
C22_RunUsesItsSnapshot ==
    [][\A r \in 1..MaxRuns :
           /\ ~InFlight(r) /\ runs'[r].pc # "idle" =>
                  /\ Snapshot(runs'[r]) = Configuration(runs'[r].req.asset)
                  /\ CallUses(r, Configuration(runs'[r].req.asset))
           /\ InFlight(r) /\ runs'[r].pc # "idle" =>
                  /\ Snapshot(runs'[r]) = Snapshot(runs[r])
                  /\ runs'[r].pc # runs[r].pc => CallUses(r, Snapshot(runs[r]))
           /\ AfterBalance(r, Hex(<<"6", "4">>)) =>
                  (runs'[r].pc = "nonce" <=> runs[r].threshold_wei <= 100)
           /\ AfterSign(r, SignerOk) =>
                  (runs'[r].pc = "send" <=>
                       runs[r].relayer_addr = <<"0x", SignerOk.rec[2]>>)]_vars

\* a run awaits eth_sendRawTransaction with the chain id and the relayer
\* address of its entry, after an admin has replaced both
C22_Witness ==
    \E r \in 1..MaxRuns :
        /\ runs[r].pc = "send"
        /\ runs[r].chain_id # Unwrap(config.chain_id)
        /\ runs[r].relayer_addr # Unwrap(config.evm_addr)

\* the log entries that are Broadcasted
BroadcastedEntries == {i \in 1..Len(logs) : logs[i].status = "Broadcasted"}

\* C23: two interleaved runs of the same authorization both pass the rate
\* limiter and the replay check and reach eth_sendRawTransaction; with a
\* node that accepts one broadcast and answers the other with a JSON-RPC
\* error, at most one entry is ever Broadcasted, and once both runs have
\* returned exactly one entry is Broadcasted and the other is Failed.  A run
\* that returns from eth_sendRawTransaction turns its entry Broadcasted and
\* returns Ok, or turns it Failed and returns RpcError; a run that ends at
\* its replay check returns AuthorizationAlreadyUsed
C23_OneOfTwoBroadcasts ==
    /\ [](Cardinality(BroadcastedEntries) <= 1)
    /\ [](NoRunInFlight /\ Len(logs) = 2 =>
              /\ Cardinality(BroadcastedEntries) = 1
              /\ \A i \in 1..2 : logs[i].status \in {"Broadcasted", "Failed"}
              /\ logs[1].from = logs[2].from)
    /\ [][\A r \in 1..MaxRuns :
              InFlight(r) /\ runs'[r].pc = "idle" =>
                  LET i == runs[r].log_id
                  IN  /\ IsSome(reply') /\ reply'[1].run = r
                      /\ runs[r].pc \in {"send", "authorization_state"}
                      /\ runs[r].pc = "send" =>
                            \/ reply'[1].ok /\ logs'[i].status = "Broadcasted"
                            \/ /\ ~reply'[1].ok
                               /\ reply'[1].err.kind = "RpcError"
                               /\ logs'[i].status = "Failed"
                      /\ runs[r].pc = "authorization_state" =>
                            /\ ~reply'[1].ok
                            /\ reply'[1].err = ErrAuthorizationAlreadyUsed
                            /\ logs'[i].status = "Failed"]_vars

\* both runs reached eth_sendRawTransaction with the same authorization, the
\* second one's broadcast was accepted and the first one's was answered with
\* a JSON-RPC error
C23_Witness ==
    /\ NoRunInFlight
    /\ Len(logs) = 2
    /\ logs[1].status = "Failed"
    /\ logs[1].fail_reason = Some(Display(ErrRpcError(RespError.code, RespError.message)))
    /\ logs[2].status = "Broadcasted"
    /\ logs[1].from = logs[2].from

\* the positions of the log entries above the cursor
AboveCursor(start_after) ==
    {i \in 1..Len(logs) : IsNone(start_after) \/ logs[i].id > Unwrap(start_after)}

\* C24: logs(start_after, limit) changes no state and returns, in strictly
\* descending id order, the min(max(limit, 1), k) highest-id entries among
\* the k entries with id > start_after (all entries when start_after is
\* absent), each with the fields of its log entry; limit = 0 answers as
\* limit = 1
C24_LogsPage ==
    [][\A start_after \in Cursors, limit \in Limits :
           logs_call(start_after, limit) =>
               LET out == reply'[1].val
                   K   == AboveCursor(start_after)
                   k   == Cardinality(K)
                   m   == IF limit >= 1 THEN limit ELSE 1
                   n   == IF m <= k THEN m ELSE k
                   Ids == {out[j].id : j \in 1..Len(out)}
               IN  /\ UNCHANGED <<relayer_state, JSON_RPC_ID, now, runs, refresh,
                                  derive>>
                   /\ reply'[1].ok
                   /\ Len(out) = n
                   /\ \A j \in 1..(Len(out) - 1) : out[j].id > out[j + 1].id
                   /\ \A j \in 1..Len(out) :
                          \E i \in K :
                              /\ out[j].id = logs[i].id
                              /\ out[j].ts = logs[i].ts_sec
                              /\ out[j].from = logs[i].from
                              /\ out[j].to = logs[i].to
                              /\ out[j].value = logs[i].value
                              /\ out[j].tx = logs[i].tx_hash
                              /\ out[j].fail_reason = logs[i].fail_reason
                              /\ out[j].status =
                                     (CASE logs[i].status = "Accepted" -> "accepted"
                                        [] logs[i].status = "Broadcasted" -> "broadcasted"
                                        [] logs[i].status = "Failed" -> "failed")
                   /\ \A i \in K : logs[i].id \notin Ids =>
                          \A j \in 1..Len(out) : logs[i].id < out[j].id
                   /\ limit = 0 => out = logs_query(start_after, 1)]_vars

\* the answer to logs(Some(1), 0) on a log of three entries: entry 3 alone,
\* of the two entries above the cursor
C24_Witness ==
    /\ Len(logs) = 3
    /\ IsSome(reply)
    /\ reply[1].op = "logs"
    /\ reply[1].val = logs_query(Some(1), 0)
    /\ Len(reply[1].val) = 1
    /\ reply[1].val[1].id = 3
    /\ reply[1].val[1].status = "broadcasted"

\* this step is a call of an admin operation by caller
AdminCall(caller) ==
    \/ AdminOps(caller)
    \/ MalformedOps(caller)
    \/ \E flag \in BOOLEAN : pause(caller, flag)

\* C25: an admin operation (set_rpc_target, set_threshold, set_chain_id,
\* set_ecdsa_derivation_path, set_relayer_address, derive_relayer_address,
\* add_asset, deprecate_asset, disable_asset, pause) called by a principal
\* outside the admin set ends with NotAuthorized, changes no part of the
\* state and issues no external call, whatever its arguments
C25_StrangerChangesNothing ==
    [][\A caller \in {Admin, Stranger} :
           caller \notin admins /\ AdminCall(caller) =>
               /\ UNCHANGED <<admins, config, assets, rate_limit, rate_state, logs,
                              next_log_id, last_known_gas>>
               /\ UNCHANGED <<JSON_RPC_ID, runs, refresh, derive>>
               /\ IsSome(reply')
               /\ ~reply'[1].ok
               /\ reply'[1].val = Display(ErrNotAuthorized)]_vars

\* a principal outside the admin set has just called derive_relayer_address
\* on a relayer in service with a run in flight: it was refused, no
\* ecdsa_public_key call is awaited and the configuration is the one in
\* service
C25_Witness ==
    /\ Stranger \notin admins
    /\ IsSome(reply)
    /\ reply[1].op = "derive_relayer_address"
    /\ ~reply[1].ok
    /\ derive.pc = "idle"
    /\ \E r \in 1..MaxRuns : InFlight(r)
    /\ config = ServiceConfig
    /\ assets = ServiceAssets

\* C26: next_log_id starts at 1 and is never reset.  A post_upgrade, over
\* the snapshot pre_upgrade wrote or over stable memory that holds no
\* snapshot, leaves logs, next_log_id and the rate counters as they were,
\* so that next_log_id is always one more than the number of entries and
\* the ids of the log are 1, 2, ... in order
C26_UpgradeKeepsLogIds ==
    /\ [][\A memory \in {pre_upgrade, NoSnapshot} :
              post_upgrade(memory) =>
                  /\ logs' = logs
                  /\ next_log_id' = next_log_id
                  /\ rate_state' = rate_state]_vars
    /\ [](/\ next_log_id = Len(logs) + 1
          /\ \A i \in 1..Len(logs) : logs[i].id = i)

\* this step frames the JSON-RPC request of refresh_gas_balance
RefreshFrames == refresh.pc = "idle" /\ refresh'.pc = "balance"

\* the number of JSON-RPC requests among the calls a run has made
JsonRpcCalls(run) ==
    IF run.pc = "idle" THEN 0
    ELSE Cardinality({j \in 1..Len(run.calls) : run.calls[j] # "sign_with_ecdsa"})

\* C27: JSON-RPC request ids are unique and strictly increasing in the order
\* the requests are framed, across all runs and refresh_gas_balance calls of
\* the process.  Every request is framed with the value of JSON_RPC_ID and
\* leaves it one higher (next_json_rpc_id); a step frames at most one
\* request; no step lowers JSON_RPC_ID; so the id of a request is above the
\* id of every request framed before it
C27_JsonRpcIdsIncrease ==
    [][/\ JSON_RPC_ID' \in {JSON_RPC_ID, JSON_RPC_ID + 1}
       /\ \A r \in 1..MaxRuns :
              FramesCall(r) =>
                  /\ JSON_RPC_ID' = JSON_RPC_ID + 1
                  /\ \A q \in 1..MaxRuns : q # r => ~FramesCall(q)
                  /\ ~RefreshFrames
                  /\ JsonRpcCalls(runs'[r]) = JsonRpcCalls(runs[r]) + 1
       /\ RefreshFrames => JSON_RPC_ID' = JSON_RPC_ID + 1]_vars

\* two runs and a refresh_gas_balance call are awaiting answers and five
\* requests have been framed: ids 1 to 5
C27_Witness ==
    /\ \A r \in 1..MaxRuns : InFlight(r)
    /\ refresh.pc = "balance"
    /\ JSON_RPC_ID = 6
    /\ JsonRpcCalls(runs[1]) + JsonRpcCalls(runs[2]) = 4

\* the admission checks in their documented order, each with the error it returns;
\* a check is a pair <<fails, error>>
ChecksInOrder(req) ==
    <<<<config.paused, ErrPaused>>,
      <<req.from.len # 20, ErrInvalidAddressLength("from", 20, req.from.len)>>,
      <<req.to.len # 20, ErrInvalidAddressLength("to", 20, req.to.len)>>,
      <<req.asset \notin DOMAIN assets, ErrAssetNotRegistered>>,
      <<req.asset \in DOMAIN assets
            /\ assets[req.asset].status \notin {"Active", "Deprecated"},
        ErrAssetNotActive>>,
      <<~req.valid_before.fits_u64, ErrNumberOutOfRange("valid_before")>>,
      <<req.valid_before.fits_u64 /\ req.valid_before.val <= now,
        ErrAuthorizationExpired>>>>

FailingChecks(req) == {j \in 1..Len(ChecksInOrder(req)) : ChecksInOrder(req)[j][1]}

FirstFailing(req) ==
    CHOOSE j \in FailingChecks(req) : \A k \in FailingChecks(req) : j <= k

\* C28: submit_authorization applies its checks in the order paused, from
\* length, to length, asset registered, asset status, valid_before (fits u64,
\* then > now), rate limits.  The call returns the error of the first check
\* that fails, and when that check comes before the rate limiter no part of
\* the state changes; when none of them fails the call is refused by the
\* rate limiter with RateLimited or reserves a log entry
C28_ChecksInOrder ==
    [][\A req \in OrderRequests :
           submit_authorization(1, req) =>
               IF FailingChecks(req) # {}
               THEN /\ IsSome(reply')
                    /\ ~reply'[1].ok
                    /\ reply'[1].err = ChecksInOrder(req)[FirstFailing(req)][2]
                    /\ UNCHANGED <<admins, config, assets, rate_limit, rate_state,
                                   logs, next_log_id, last_known_gas>>
                    /\ UNCHANGED <<JSON_RPC_ID, runs, refresh, derive>>
               ELSE \/ /\ IsSome(reply')
                       /\ reply'[1].err = ErrRateLimited
                       /\ logs' = logs
                    \/ /\ Len(logs') = Len(logs) + 1
                       /\ next_log_id' = next_log_id + 1]_vars

\* a request for an asset that is not registered, whose valid_before is not
\* in the future, has just been refused with AssetNotRegistered by a relayer
\* whose rate limiter would refuse the sender
C28_Witness ==
    /\ IsSome(reply)
    /\ reply[1].op = "submit_authorization"
    /\ reply[1].err = ErrAssetNotRegistered
    /\ Unwrap(reply[1].req).asset \notin DOMAIN assets
    /\ Unwrap(reply[1].req).valid_before = NatIn(now)
    /\ ~config.paused
    /\ Len(logs) >= PerAddrPerMin

\* counters m and its successor differ at most at key
OnlyKeyChanges(m, next, key) ==
    /\ DOMAIN m \subseteq DOMAIN next
    /\ DOMAIN next \subseteq (DOMAIN m) \cup {key}
    /\ \A k \in DOMAIN m : k # key => next[k] = m[k]

\* the entries of the log other than the one with id log_id are as they were
OtherEntriesKept(log_id) ==
    \A i \in 1..Len(logs) : logs[i].id # log_id => logs'[i] = logs[i]

\* this step is the entry of a submit_authorization call placed in slot r
EntryStep(r) ==
    /\ runs[r].pc = "idle"
    /\ \/ runs'[r].pc # "idle"
       \/ IsSome(reply') /\ reply'[1].op = "submit_authorization" /\ reply'[1].run = r

\* this step resumes the run in slot r after one of its awaits
ResumeStep(r) == InFlight(r) /\ runs'[r] # runs[r]

\* C29: whatever its outcome and the interleaving, submit_authorization never
\* changes admins, config, assets or the rate-limit configuration.  At its
\* entry it writes at most the rate counters of its own sender, one appended
\* log entry and next_log_id; after an await it writes at most the status,
\* tx_hash and fail_reason of its own log entry, and last_known_gas; the
\* entries and the locals of every other run stay as they were
C29_SubmitFrame ==
    [][\A r \in 1..MaxRuns :
           /\ EntryStep(r) =>
                  /\ UNCHANGED <<admins, config, assets, rate_limit, last_known_gas>>
                  /\ \A q \in 1..MaxRuns : q # r => runs'[q] = runs[q]
                  /\ OtherEntriesKept(0)
                  /\ \/ logs' = logs /\ next_log_id' = next_log_id
                     \/ /\ Len(logs') = Len(logs) + 1
                        /\ logs'[Len(logs')].id = next_log_id
                        /\ next_log_id' = next_log_id + 1
                  /\ \A sender \in RateSenders :
                         (IsSome(reply') /\ reply'[1].req = Some(Request(sender, 2000)))
                             \/ (runs'[r].pc # "idle"
                                     /\ runs'[r].req = Request(sender, 2000)) =>
                             /\ OnlyKeyChanges(rate_state.per_min_counter,
                                               rate_state'.per_min_counter,
                                               <<"0x", sender>>)
                             /\ OnlyKeyChanges(rate_state.daily_counter,
                                               rate_state'.daily_counter,
                                               <<"0x", sender>>)
           /\ ResumeStep(r) =>
                  /\ UNCHANGED <<admins, config, assets, rate_limit, rate_state,
                                 next_log_id>>
                  /\ \A q \in 1..MaxRuns : q # r => runs'[q] = runs[q]
                  /\ Len(logs') = Len(logs)
                  /\ OtherEntriesKept(runs[r].log_id)
                  /\ \A i \in 1..Len(logs) :
                         [logs'[i] EXCEPT !.status = logs[i].status,
                                          !.tx_hash = logs[i].tx_hash,
                                          !.fail_reason = logs[i].fail_reason]
                             = logs[i]]_vars

\* the runs of two senders interleaved: the first sender's entry is
\* Broadcasted, the second sender's run is still in flight with its entry
\* Accepted, and the limiter holds a counter for each of them
C29_Witness ==
    /\ Len(logs) = 2
    /\ logs[1].from # logs[2].from
    /\ logs[1].status = "Broadcasted"
    /\ logs[2].status = "Accepted"
    /\ \E r \in 1..MaxRuns : InFlight(r) /\ runs[r].log_id = 2 /\ runs[r].pc = "send"
    /\ Cardinality(DOMAIN rate_state.per_min_counter) = 2
    /\ last_known_gas = 100

\* ceil(x * 6 / 5) by quotient and remainder
CeilSixFifths(x) == LET q == (6 * x) \div 5 IN IF 5 * q = 6 * x THEN q ELSE q + 1

Larger(a, b) == IF a >= b THEN a ELSE b

\* C30: for every gas estimate the run goes on with
\* gas_limit = max(ceil(max(gas_estimate, 50000) * 1.2), gas_estimate): an
\* estimate below 50000 yields 60000, an estimate of 120000 yields 144000, and
\* gas_limit is never below the raw estimate nor below 60000
C30_GasLimit ==
    [][\A r \in 1..MaxRuns : \A v \in GasEstimates :
           AfterEstimateGas(r, Quantity(v)) =>
               /\ runs'[r].pc = "base_fee"
               /\ runs'[r].gas_limit = Larger(CeilSixFifths(Larger(v, 50000)), v)
               /\ runs'[r].gas_limit >= v
               /\ runs'[r].gas_limit >= 60000
               /\ v < 50000 => runs'[r].gas_limit = 60000
               /\ v = 120000 => runs'[r].gas_limit = 144000]_vars

\* a run that was answered an estimate of 120000 goes on with 144000
C30_Witness ==
    \E r \in 1..MaxRuns :
        /\ runs[r].pc = "base_fee"
        /\ runs[r].gas_limit = 144000

\* ceil(x * n / d) by quotient and remainder
CeilRatio(x, n, d) == LET q == (x * n) \div d IN IF q * d = x * n THEN q ELSE q + 1

\* max(ceil(x * m), x) for a finite multiplier m
ScaledUp(x, m) == Larger(CeilRatio(x, m.num, m.den), x)

\* the 9 items of the envelope a run has handed to the signer
SignedEnvelope(r) == UnsignedItems(runs[r])

\* C31: for every finite non-negative multiplier the run goes on with
\* priority_effective = max(ceil(priority * priority_multiplier), priority),
\* replaced by 10^9 when that is zero, and with
\* max_fee_per_gas = max(ceil(base_fee * max_fee_multiplier), base_fee)
\* + priority_effective; an infinite multiplier ends the run; and in every
\* envelope that is signed max_priority_fee_per_gas >= 1 and
\* max_fee_per_gas >= max_priority_fee_per_gas
C31_FeeArithmetic ==
    /\ [][\A r \in 1..MaxRuns : \A p \in PriorityFees :
              AfterPriorityFee(r, Quantity(p)) =>
                  LET pm == runs[r].priority_multiplier
                      mm == runs[r].max_fee_multiplier
                      scaled == ScaledUp(p, pm)
                      effective == IF scaled = 0 THEN 1000000000 ELSE scaled
                  IN  IF pm.kind = "finite" /\ mm.kind = "finite"
                      THEN /\ runs'[r].pc = "balance"
                           /\ runs'[r].priority_fee_effective = effective
                           /\ runs'[r].max_fee_per_gas =
                                  ScaledUp(runs[r].base_fee, mm) + effective
                      ELSE runs'[r].pc = "idle"]_vars
    /\ [](\A r \in 1..MaxRuns :
              runs[r].pc \in {"sign", "send"} =>
                  /\ SignedEnvelope(r)[3] >= 1
                  /\ SignedEnvelope(r)[4] >= SignedEnvelope(r)[3])

\* a signed envelope whose priority fee is the 1 gwei replacement of zero and
\* whose max fee is the scaled base fee above it
C31_Witness ==
    \E r \in 1..MaxRuns :
        /\ runs[r].pc = "send"
        /\ runs[r].priority_multiplier = Rational(9, 4)
        /\ runs[r].max_fee_multiplier = Rational(9, 4)
        /\ runs[r].base_fee = 7
        /\ SignedEnvelope(r)[3] = 1000000000
        /\ SignedEnvelope(r)[4] = 1000000016

\* the encoded nonce in the pre-image run r hands to the signer
NonceItem(run) == EnvelopeItems(run.params[1].message_hash.keccak256)[2]

\* what holds of rlp_encode_nat_value(n) for every n: zero is the single byte
\* 0x80, the payload has no leading zero byte and reads back as n
NatEncodingCanonical(item, n) ==
    /\ n = 0 => item = <<[byte |-> 128]>>
    /\ RlpPayload(item) = << >> \/ RlpPayload(item)[1].byte # 0
    /\ BigEndian(RlpPayload(item)) = n

\* C35, as claimed: rlp_encode_nat_value(n) begins with a byte below 0x80 if
\* and only if n < 0x80, zero encodes as the single byte 0x80, and the
\* integer payload never has a leading zero byte
C35_FirstByteIffBelow128 ==
    [][\A r \in 1..MaxRuns : \A n \in EncodedNats :
           AfterNonce(r, Quantity(n)) =>
               /\ runs'[r].pc = "sign"
               /\ NonceItem(runs'[r])[1].byte < 128 <=> n < 128
               /\ NatEncodingCanonical(NonceItem(runs'[r]), n)]_vars

\* C35, amended: rlp_encode_nat_value(n) begins with a byte below 0x80 if
\* and only if 0 < n < 0x80 (the encoding of such an n is the byte n itself);
\* zero encodes as the single byte 0x80, which is not below 0x80; the
\* integer payload never has a leading zero byte and reads back as n
C35_NatEncoding ==
    [][\A r \in 1..MaxRuns : \A n \in EncodedNats :
           AfterNonce(r, Quantity(n)) =>
               /\ runs'[r].pc = "sign"
               /\ NonceItem(runs'[r])[1].byte < 128 <=> (0 < n /\ n < 128)
               /\ (0 < n /\ n < 128) => NonceItem(runs'[r]) = <<[byte |-> n]>>
               /\ NatEncodingCanonical(NonceItem(runs'[r]), n)]_vars

\* a run hands the signer an envelope whose nonce 0 is encoded as 0x80
C35_Witness ==
    \E r \in 1..MaxRuns :
        /\ runs[r].pc = "sign"
        /\ runs[r].nonce = 0
        /\ NonceItem(runs[r]) = <<[byte |-> 128]>>

\* the pre-image whose hash run was signed over, and the payload it broadcasts
SignedPreImage(run) == run.params[1].message_hash.keccak256
BroadcastPayload(run) == run.params[1][2]

\* the nine transaction fields of run in the items of an envelope: chain_id,
\* nonce, max_priority_fee_per_gas, max_fee_per_gas, gas_limit, to (the asset
\* contract), value (0), data (the transferWithAuthorization call),
\* access_list (empty)
FieldsInOrder(items, run) ==
    /\ BigEndian(RlpPayload(items[1])) = run.chain_id.val
    /\ BigEndian(RlpPayload(items[2])) = run.nonce
    /\ BigEndian(RlpPayload(items[3])) = run.priority_fee_effective
    /\ BigEndian(RlpPayload(items[4])) = run.max_fee_per_gas
    /\ BigEndian(RlpPayload(items[5])) = run.gas_limit
    /\ RlpPayload(items[6]) = Blob(run.asset_cfg.evm_address[2], 20)
    /\ items[7] = <<[byte |-> 128]>>
    /\ RlpPayload(items[8]) =
           Blob(encode_transfer_with_authorization_call(run.req).val, 292)
    /\ items[9] = <<[byte |-> 192]>>

\* C32: the signed 12-item envelope is the unsigned 9-item envelope with
\* exactly y_parity, r, s appended.  Its first nine items are the items of
\* the pre-image that was hashed for signing, in the order chain_id, nonce,
\* max_priority_fee_per_gas, max_fee_per_gas, gas_limit, to, value, data,
\* access_list, with to the asset contract, value 0 and access_list empty;
\* encoding the list of those nine items after 0x02 gives the pre-image
C32_SignedExtendsUnsigned ==
    [][\A r \in 1..MaxRuns :
           AfterSign(r, SignerOk) /\ runs'[r].pc = "send" =>
               LET pre   == SignedPreImage(runs[r])
                   items == EnvelopeItems(BroadcastPayload(runs'[r]))
                   sig   == Unwrap(runs'[r].signature)
               IN  /\ pre[1] = [byte |-> 2]
                   /\ BroadcastPayload(runs'[r])[1] = [byte |-> 2]
                   /\ Len(EnvelopeItems(pre)) = 9
                   /\ Len(items) = 12
                   /\ SubSeq(items, 1, 9) = EnvelopeItems(pre)
                   /\ <<[byte |-> 2]>> \o rlp_encode_list(SubSeq(items, 1, 9)) = pre
                   /\ FieldsInOrder(items, runs[r])
                   /\ BigEndian(RlpPayload(items[10])) = sig.y_parity
                   /\ RlpPayload(items[11]) = Cells(sig.r)
                   /\ RlpPayload(items[12]) = Cells(sig.s)]_vars

\* a run with account nonce 128 broadcasts a payload of 12 items
C32_Witness ==
    \E r \in 1..MaxRuns :
        /\ runs[r].pc = "send"
        /\ runs[r].nonce = 128
        /\ Len(EnvelopeItems(BroadcastPayload(runs[r]))) = 12

\* the candidates 0..3 whose recovered address is the relayer address held
\* by run
Matching(sresp, run) ==
    {k \in 0..3 : sresp.valid /\ <<"0x", sresp.rec[k + 1]>> = run.relayer_addr}

\* the step ends run r with this error: the call returns it, the entry of
\* the run is Failed and no request is framed
EndsWith(r, kind) ==
    /\ runs'[r].pc = "idle"
    /\ IsSome(reply') /\ ~reply'[1].ok /\ reply'[1].err.kind = kind
    /\ logs'[runs[r].log_id].status = "Failed"
    /\ JSON_RPC_ID' = JSON_RPC_ID

\* the step goes on to eth_sendRawTransaction with these signature parts
SignsWith(r, sresp, y) ==
    /\ runs'[r].pc = "send"
    /\ Unwrap(runs'[r].signature).y_parity = y
    /\ trim_leading_zeroes(Unwrap(runs'[r].signature).r)
           = trim_leading_zeroes(SubSeq(sresp.signature, 1, 32))
    /\ trim_leading_zeroes(Unwrap(runs'[r].signature).s)
           = trim_leading_zeroes(SubSeq(sresp.signature, 33, 64))

\* C33: for every width and content of the signer's response.  65 bytes
\* give r = bytes 0..32, s = bytes 32..64 (as integers) and y_parity = byte
\* 64 as it is; 64 bytes give y_parity = the low bit of the first recovery
\* id in the order 0, 1, 2, 3 whose recovered address is the relayer
\* address, and SignatureRecoveryFailed when there is none; any other width
\* is InvalidSignatureLength, a rejection by the signer a transport error;
\* on each of these errors the entry of the run becomes Failed and
\* eth_sendRawTransaction is not issued
C33_SignerResponse ==
    [][\A r \in 1..MaxRuns : \A sresp \in SignerAnswers :
           AfterSign(r, sresp) =>
               LET width == Len(sresp.signature)
                   ids   == Matching(sresp, runs[r])
               IN  IF sresp.kind = "reject" THEN EndsWith(r, "RpcTransportError")
                   ELSE IF width = 65 THEN SignsWith(r, sresp, sresp.signature[65])
                   ELSE IF width # 64 THEN EndsWith(r, "InvalidSignatureLength")
                   ELSE IF ids = {} THEN EndsWith(r, "SignatureRecoveryFailed")
                   ELSE \E k \in ids :
                            /\ \A j \in ids : k <= j
                            /\ SignsWith(r, sresp, k % 2)]_vars

\* a 64-byte response that recovers to the relayer address with the ids 1
\* and 2 was taken with y_parity 1
C33_Witness ==
    \E r \in 1..MaxRuns :
        /\ runs[r].pc = "send"
        /\ Unwrap(runs[r].signature).r = Word(0, 20)
        /\ Unwrap(runs[r].signature).y_parity = 1

\* an encoded item is a canonical RLP integer: its payload has no leading
\* zero byte, so that zero is the empty byte string 0x80
CanonicalInteger(item) ==
    RlpPayload(item) = << >> \/ RlpPayload(item)[1].byte # 0

\* C34, as claimed: in every broadcast envelope the r and s items are
\* canonical RLP integers, for every 32-byte r and s the signer returns,
\* words with leading zero bytes and the zero word included
C34_SignatureIntegersCanonical ==
    \A r \in 1..MaxRuns :
        runs[r].pc = "send" =>
            /\ CanonicalInteger(EnvelopeItems(BroadcastPayload(runs[r]))[11])
            /\ CanonicalInteger(EnvelopeItems(BroadcastPayload(runs[r]))[12])

\* the fields of an entry agree with its status
EntryConsistent(log) ==
    /\ log.status \in {"Accepted", "Broadcasted", "Failed"}
    /\ log.status = "Accepted" => IsNone(log.tx_hash) /\ IsNone(log.fail_reason)
    /\ log.status = "Broadcasted" => IsSome(log.tx_hash) /\ IsNone(log.fail_reason)
    /\ log.status = "Failed" => IsSome(log.fail_reason) /\ IsNone(log.tx_hash)

\* the fields written at reservation
Reserved(log) ==
    [id |-> log.id, ts_sec |-> log.ts_sec, asset |-> log.asset, from |-> log.from,
     to |-> log.to, value |-> log.value]

\* C36: in every reachable state an Accepted entry has neither tx_hash nor
\* fail_reason, a Broadcasted entry has a tx_hash and no fail_reason, a
\* Failed entry has a fail_reason and no tx_hash; and id, ts_sec, asset,
\* from, to, value of an entry never change after it is appended
C36_EntriesConsistent ==
    /\ [](\A i \in 1..Len(logs) : EntryConsistent(logs[i]))
    /\ [][/\ Len(logs') >= Len(logs)
           /\ \A i \in 1..Len(logs) : Reserved(logs'[i]) = Reserved(logs[i])]_vars

\* an entry that failed after its reservation next to one that was broadcast
\* later, both with the fields they were appended with
C36_Witness ==
    /\ Len(logs) = 2
    /\ logs[1].status = "Failed"
    /\ logs[1].fail_reason = Some(<<"relayer gas below threshold">>)
    /\ logs[2].status = "Broadcasted"
    /\ Reserved(logs[2]) = [Reserved(logs[1]) EXCEPT !.id = 2]

RECURSIVE LoggedInDay(_, _, _)
\* the sum of value over the first n entries of sender whose ts_sec falls in
\* the 86400-second window
LoggedInDay(n, sender, window) ==
    IF n = 0 THEN NatZero
    ELSE IF logs[n].from = sender /\ logs[n].ts_sec \div 86400 = window
    THEN NatAdd(LoggedInDay(n - 1, sender, window), logs[n].value)
    ELSE LoggedInDay(n - 1, sender, window)

\* C37: with daily_cap_token = D > 0, in every reachable state, for every
\* sender and every 86400-second window, the sum of value over the entries
\* of that sender (of any status) whose ts_sec falls in the window does not
\* exceed D * 10^18
C37_LoggedWithinDailyCap ==
    rate_limit.daily_cap_token > 0 =>
        \A i \in 1..Len(logs) :
            ~NatGT(LoggedInDay(Len(logs), logs[i].from, logs[i].ts_sec \div 86400),
                   NatScale(rate_limit.daily_cap_token, JPYC_UNIT_MULTIPLIER))

\* a sender whose entries of one day add up to the cap exactly and who has
\* an entry in the next day
C37_Witness ==
    /\ Len(logs) = 3
    /\ \A i \in 1..3 : logs[i].from = SenderHex("alice")
    /\ logs[1].ts_sec \div 86400 = 0
    /\ logs[3].ts_sec \div 86400 = 1
    /\ LoggedInDay(3, SenderHex("alice"), 0)
           = NatScale(rate_limit.daily_cap_token, JPYC_UNIT_MULTIPLIER)
    /\ \E r \in 1..MaxRuns : runs[r].pc # "idle"

\* the first setting that is missing, in the order rpc_target, relayer
\* address, chain_id
MissingSetting ==
    IF IsNone(config.rpc_target) THEN ErrConfigurationMissing("rpc_target")
    ELSE IF IsNone(config.evm_addr) THEN ErrRelayerAddressMissing
    ELSE IF IsNone(config.chain_id) THEN ErrConfigurationMissing("chain_id")
    ELSE NoError

\* C38: a submission that passes validation and the rate limiter while
\* rpc_target, the relayer address or chain_id is unset still consumes the
\* sender's hit and amount in both counters and appends a log entry, which
\* is Failed when the call returns; the error is that of the first missing
\* setting in the order rpc_target, relayer address, chain_id; no request is
\* framed and no run stays in flight.  With all three set the run goes on to
\* its first call
C38_UnsetConfigurationIsCharged ==
    [][\A sender \in RateSenders :
           submit_authorization(1, Request(sender, 2000)) =>
               LET req  == Request(sender, 2000)
                   from == SenderHex(sender)
               IN  /\ WindowHits(rate_state', from, now)
                          = WindowHits(rate_state, from, now) + 1
                   /\ DayHits(rate_state', from, now) = DayHits(rate_state, from, now) + 1
                   /\ DayAmount(rate_state', from, now)
                          = NatAdd(DayAmount(rate_state, from, now), req.value)
                   /\ Len(logs') = Len(logs) + 1
                   /\ logs'[Len(logs')].id = next_log_id
                   /\ logs'[Len(logs')].from = from
                   /\ next_log_id' = next_log_id + 1
                   /\ IF MissingSetting = NoError
                      THEN /\ runs'[1].pc = "authorization_state"
                           /\ logs'[Len(logs')].status = "Accepted"
                           /\ reply' = None
                      ELSE /\ reply' = SubmitReply(1, req, Fail(MissingSetting))
                           /\ logs'[Len(logs')].status = "Failed"
                           /\ IsSome(logs'[Len(logs')].fail_reason)
                           /\ runs'[1].pc = "idle"
                           /\ JSON_RPC_ID' = JSON_RPC_ID]_vars

\* the call returned ConfigurationMissing{chain_id}: rpc_target and the
\* relayer address are set, the entry is Failed and the sender is charged
C38_Witness ==
    /\ IsSome(reply)
    /\ reply[1].op = "submit_authorization"
    /\ reply[1].err = ErrConfigurationMissing("chain_id")
    /\ IsSome(config.rpc_target) /\ IsSome(config.evm_addr) /\ IsNone(config.chain_id)
    /\ Len(logs) = 1
    /\ logs[1].status = "Failed"
    /\ logs[1].fail_reason = Some(<<"chain id not configured">>)
    /\ DayHits(rate_state, logs[1].from, now) = 1

\* a submission for the registered asset is refused with AssetNotActive as
\* long as the asset is Disabled
DisabledRejects ==
    \A sender \in RateSenders :
        (Jpyc \in DOMAIN assets /\ assets[Jpyc].status = "Disabled"
             /\ submit_authorization(1, Request(sender, 2000)))
            => /\ reply' = SubmitReply(1, Request(sender, 2000),
                                       Fail(ErrAssetNotActive))
               /\ UNCHANGED <<relayer_state, runs>>

\* deprecate_asset and disable_asset on an unregistered asset change nothing
UnregisteredUntouched ==
    (deprecate_asset(Admin, Unregistered) \/ disable_asset(Admin, Unregistered))
        => UNCHANGED <<relayer_state, runs>>

\* C39, as claimed: disabling is not undone by deprecation.  Once the asset
\* is Disabled it stays Disabled, so that submissions for it keep failing
\* with AssetNotActive, until add_asset is called for it again; and
\* deprecate_asset and disable_asset on an unregistered asset change nothing
C39_DisabledUntilAddedAgain ==
    [][/\ (/\ Jpyc \in DOMAIN assets
            /\ assets[Jpyc].status = "Disabled"
            /\ ~add_asset(Admin, Jpyc, TypedAddress("token"), NatIn(0)))
              => assets'[Jpyc].status = "Disabled"
       /\ DisabledRejects
       /\ UnregisteredUntouched]_vars

\* what remains of it: a Disabled asset rejects, and the calls on an
\* unregistered asset change nothing
C39_Remainder == [][DisabledRejects /\ UnregisteredUntouched]_vars

\* C40: after init, whatever its arguments, the relayer is paused, the log
\* is empty, next_log_id is 1 and the deployer is an admin; while the relayer
\* is paused every submit_authorization returns Paused and changes no state;
\* and the pause flag is cleared only by pause(false) from an admin
C40_PausedAfterInit ==
    /\ (config.paused /\ logs = << >> /\ next_log_id = 1 /\ Deployer \in admins)
    /\ [][\A req \in DeployRequests :
            (config.paused /\ submit_authorization(1, req))
                => /\ reply' = SubmitReply(1, req, Fail(ErrPaused))
                   /\ UNCHANGED <<relayer_state, JSON_RPC_ID, now, runs, refresh,
                                  derive>>]_vars
    /\ [][(config.paused /\ ~config'.paused)
            => \E caller \in admins : pause(caller, FALSE)]_vars

\* a well-formed submission was answered Paused by a relayer deployed with
\* its own rate limit and a listed admin, and nothing was logged or charged
C40_Witness ==
    /\ config.paused
    /\ reply = SubmitReply(1, Request("bob", 2000), Fail(ErrPaused))
    /\ Admin \in admins
    /\ rate_limit.per_addr_per_min = 0
    /\ assets # << >>
    /\ logs = << >>
    /\ rate_state = EmptyRateState

====
